---- MODULE Spec2Model ----
(***************************************************************************)
(* PromiseQueue of @sora-soft/promise-utils (src/unnamed/part_001): a      *)
(* priority-ordered, concurrency-limited queue of asynchronous tasks.      *)
(*                                                                         *)
(* One action is one synchronous run of queue code: a public method call,  *)
(* or the continuation of a started job after its awaited operation has    *)
(* settled.  Tasks are promises or async functions: starting one never     *)
(* throws synchronously, and task bodies and event listeners act on the    *)
(* queue only in later turns, which are the other actions of the model.    *)
(*                                                                         *)
(* A handler is an operator from the queue's state to its state after the  *)
(* call, together with the trace of the micro-steps the call performed     *)
(* (events emitted, counter updates, task invocations), each with the      *)
(* waiting list and the in-flight count at that instant.  Runs is the set  *)
(* of calls that can happen next in a state; the properties quantify over  *)
(* it.                                                                     *)
(*                                                                         *)
(* RetryController and RetryPromise (src/src/retry-promise/index.ts) are   *)
(* modelled the same way: the controller's fields, the host's timers and   *)
(* clock, and one call of a function wrapped by RetryPromise.  The queue   *)
(* and the controller do not act on each other; each specification moves   *)
(* one of them and leaves the other untouched.                             *)
(***************************************************************************)
EXTENDS Integers, Sequences, FiniteSets

\* ------------------------------------------------------------------ bounds
MaxTasks == 3
MaxConcurrency == 2
MaxWaiters == 1
\* #concurrency is a number that need not be whole: the model holds it in
\* units of 1/Denominator, and Whole(n) is the whole number n in these units.
Denominator == 2

TaskIds == 1..MaxTasks
Priorities == {0, 1}
Whole(n) == n * Denominator
\* Number.POSITIVE_INFINITY: larger than any count the model can reach.
POSITIVE_INFINITY == Whole(2 * (MaxTasks + MaxConcurrency))
\* What the constructor accepts as options.concurrency: positive integers.
IntegerValues == {Whole(n) : n \in 1..MaxConcurrency}
\* What is assigned to concurrency: a negative number, zero, a number below
\* one, whole numbers, a number between one and two, Infinity.
ConcurrencyValues ==
  {-Whole(1), 0, 1} \cup IntegerValues \cup {Whole(1) + 1}
    \cup {POSITIVE_INFINITY}
\* options.signal of add(), by whether it has fired.  A task added without a
\* signal behaves as one whose signal never fires.
Signals == {"live", "aborted"}
\* The limits onSizeLessThan() is called with.
Limits == {1, 2}

VARIABLES
  queue,        \* #queue: the waiting entries, each {priority, run}
  pending,      \* #pending
  concurrency,  \* #concurrency
  isPaused,     \* #isPaused
  timeout,      \* timeout: TRUE when the field holds a positive integer
  tasks,        \* per submitted task: where it is, and its abort signal
  nextId,       \* number of add() calls so far, plus one
  idleWaiters,  \* 'idle' listeners registered by onIdle(), not yet resolved
  emptyWaiters, \* 'empty' listeners registered by onEmpty(), not yet resolved
  sizeWaiters,  \* limits of the 'next' listeners registered by
                \* onSizeLessThan(), not yet resolved
  batch,        \* the promise returned by a call of addAll(), with the
                \* tasks it waits for
  controller,   \* a RetryController: its private fields
  timers,       \* the host's timers: the callbacks armed by setTimeout and
                \* not yet run or cleared, and the number created so far
  now,          \* Date.now(), in units of 1/Denominator
  session,      \* one call of a function returned by RetryPromise: the
                \* retry counts the operation was invoked with, the attempt
                \* in flight, and the returned promise
  other,        \* another call of the same function: its controller and
                \* its session
  cancelable,   \* a CancelablePromise: its private fields and its promise
  timed,        \* a TimeoutPromise: its promise and its timer
  debounced     \* a function returned by DebouncePromise: its waiting
                \* callers and its timer

queueVars == <<queue, pending, concurrency, isPaused, timeout, tasks, nextId,
               idleWaiters, emptyWaiters, sizeWaiters, batch>>

retryVars == <<controller, timers, now, session, other>>

wrapperVars == <<cancelable, timed, debounced>>

vars == <<queueVars, retryVars, wrapperVars>>

NoEntry == [id |-> 0, priority |-> 0]
NewTask == [st |-> "new", sig |-> "live"]
DoneTask == [st |-> "done", sig |-> "live"]

\* The queue object as one record, so that a handler is a composition of
\* the private methods it calls.
Self ==
  [queue |-> queue, pending |-> pending, concurrency |-> concurrency,
   isPaused |-> isPaused, timeout |-> timeout, tasks |-> tasks,
   idleWaiters |-> idleWaiters, emptyWaiters |-> emptyWaiters,
   sizeWaiters |-> sizeWaiters, batch |-> batch, trace |-> <<>>]

Step(s, ev, entry, arg) ==
  [ev |-> ev, entry |-> entry, arg |-> arg, queue |-> s.queue,
   pending |-> s.pending, limit |-> 0]

Record(s, ev, entry, arg) ==
  [s EXCEPT !.trace = Append(@, Step(s, ev, entry, arg))]

\* ---------------------------------------------------------- priority list
\* Mutant: the order the option's comment describes, lower number first.
comparator_LowerFirst(a, b) == a.priority - b.priority

comparator(a, b) == b.priority - a.priority

RECURSIVE lowerBoundLoop(_, _, _, _)
lowerBoundLoop(array, value, first, count) ==
  IF count > 0
    THEN LET step == count \div 2
             it == first + step
         IN  IF comparator(array[it + 1], value) <= 0
               THEN lowerBoundLoop(array, value, it + 1, count - (step + 1))
               ELSE lowerBoundLoop(array, value, first, step)
    ELSE first

lowerBound(array, value) == lowerBoundLoop(array, value, 0, Len(array))

splice(array, index, element) ==
  SubSeq(array, 1, index) \o <<element>> \o SubSeq(array, index + 1, Len(array))

enqueue(s, id, priority) ==
  LET element == [id |-> id, priority |-> priority]
  IN  IF Len(s.queue) > 0 /\ s.queue[Len(s.queue)].priority >= priority
        THEN [s EXCEPT !.queue = Append(@, element)]
        ELSE [s EXCEPT !.queue = splice(@, lowerBound(s.queue, element), element)]

dequeue(s) == [s EXCEPT !.queue = Tail(@)]

\* Mutant: off by one, a slot too many.
isConcurrentAllowAnother_Inclusive(s) == Whole(s.pending) <= s.concurrency

isConcurrentAllowAnother(s) == Whole(s.pending) < s.concurrency

\* ------------------------------------------------------------------ events
\* #onEvent's listener: every registered onIdle() promise resolves when
\* 'idle' is emitted, and its listener is removed.
onEventListener(s) ==
  [s EXCEPT !.idleWaiters = 0,
            !.trace = @ \o [i \in 1..s.idleWaiters |->
                              Step(s, "onIdle.resolve", NoEntry, "listener")]]

\* The same listener registered by onEmpty() for 'empty'.
onEmptyListener(s) ==
  [s EXCEPT !.emptyWaiters = 0,
            !.trace = @ \o [i \in 1..s.emptyWaiters |->
                              Step(s, "onEmpty.resolve", NoEntry, "listener")]]

\* The listeners registered by onSizeLessThan(limit) for 'next', with the
\* filter () => this.#queue.length < limit: one whose filter fails stays
\* registered.  Listeners of one limit are resolved together.
\* Mutant: the filter is not consulted.
onSizeListener_NoFilter(s, limits) ==
  [s EXCEPT !.sizeWaiters = {},
            !.trace = @ \o [i \in 1..Cardinality(limits) |->
                              [Step(s, "onSizeLessThan.resolve", NoEntry,
                                    "listener") EXCEPT !.limit = 1]]]

RECURSIVE onSizeListener(_, _)
onSizeListener(s, limits) ==
  IF limits = {}
    THEN s
    ELSE LET limit == CHOOSE l \in limits : \A m \in limits : l <= m
             s1 == IF Len(s.queue) < limit
                     THEN [s EXCEPT
                             !.sizeWaiters = @ \ {limit},
                             !.trace = Append(@,
                               [Step(s, "onSizeLessThan.resolve", NoEntry,
                                     "listener") EXCEPT !.limit = limit])]
                     ELSE s
         IN  onSizeListener(s1, limits \ {limit})

emit(s, ev, entry, arg) ==
  LET s1 == Record(s, ev, entry, arg)
  IN  CASE ev = "idle" -> onEventListener(s1)
        [] ev = "empty" -> onEmptyListener(s1)
        [] ev = "next" -> onSizeListener(s1, s1.sizeWaiters)
        [] OTHER -> s1

\* ------------------------------------------------------------- job, start
\* Mutant: the task is invoked whatever the state of its signal.
job_InvokesAborted(s, entry) ==
  LET s1 == Record([s EXCEPT !.pending = @ + 1], "inc", entry, "")
      s2 == [s1 EXCEPT !.tasks[entry.id].st = "running"]
  IN  Record(s2, "invoke", entry, "")

\* The synchronous part of the job add() enqueues, up to its await: count
\* the task in, wrap it (BeAbleToAbort, BeAbleToTimeout), invoke it.  A
\* signal that is already aborted rejects the wrapper without invoking the
\* task.
job(s, entry) ==
  LET s1 == Record([s EXCEPT !.pending = @ + 1], "inc", entry, "")
      s2 == [s1 EXCEPT !.tasks[entry.id].st = "running"]
  IN  IF s.tasks[entry.id].sig = "aborted"
        THEN s2
        ELSE Record(s2, "invoke", entry, "")

\* Mutant: the paused flag is not consulted.
tryToStartAnother_IgnoresPause(s) ==
  IF Len(s.queue) = 0
    THEN LET s1 == emit(s, "empty", NoEntry, "")
             s2 == IF s1.pending = 0 THEN emit(s1, "idle", NoEntry, "") ELSE s1
         IN  [s |-> s2, r |-> FALSE]
    ELSE IF isConcurrentAllowAnother(s)
           THEN LET entry == Head(s.queue)
                    s1 == dequeue(s)
                    s2 == emit(s1, "active", entry, "")
                IN  [s |-> job(s2, entry), r |-> TRUE]
           ELSE [s |-> s, r |-> FALSE]

\* Mutant: 'idle' is emitted with 'empty', whatever is in flight.
tryToStartAnother_IdleWhenEmpty(s) ==
  IF Len(s.queue) = 0
    THEN [s |-> emit(emit(s, "empty", NoEntry, ""), "idle", NoEntry, ""),
          r |-> FALSE]
    ELSE IF ~s.isPaused /\ isConcurrentAllowAnother(s)
           THEN LET entry == Head(s.queue)
                    s1 == dequeue(s)
                    s2 == emit(s1, "active", entry, "")
                IN  [s |-> job(s2, entry), r |-> TRUE]
           ELSE [s |-> s, r |-> FALSE]

tryToStartAnother(s) ==
  IF Len(s.queue) = 0
    THEN LET s1 == emit(s, "empty", NoEntry, "")
             s2 == IF s1.pending = 0 THEN emit(s1, "idle", NoEntry, "") ELSE s1
         IN  [s |-> s2, r |-> FALSE]
    ELSE IF ~s.isPaused /\ isConcurrentAllowAnother(s)
           THEN LET entry == Head(s.queue)
                    s1 == dequeue(s)
                    s2 == emit(s1, "active", entry, "")
                IN  [s |-> job(s2, entry), r |-> TRUE]
           ELSE [s |-> s, r |-> FALSE]

processQueue_Once(s) == tryToStartAnother(s).s

RECURSIVE processQueue(_)
processQueue(s) ==
  LET t == tryToStartAnother(s)
  IN  IF t.r THEN processQueue(t.s) ELSE t.s

\* Mutant: the slot is released twice.
next_ReleasesTwice(s) ==
  LET s1 == Record([s EXCEPT !.pending = @ - 2], "dec", NoEntry, "")
      s2 == tryToStartAnother(s1).s
  IN  emit(s2, "next", NoEntry, "")

\* Mutant: 'next' is emitted before the dequeue attempt.
next_EmitsFirst(s) ==
  LET s1 == Record([s EXCEPT !.pending = @ - 1], "dec", NoEntry, "")
      s2 == emit(s1, "next", NoEntry, "")
  IN  tryToStartAnother(s2).s

next(s) ==
  LET s1 == Record([s EXCEPT !.pending = @ - 1], "dec", NoEntry, "")
      s2 == tryToStartAnother(s1).s
  IN  emit(s2, "next", NoEntry, "")

\* ------------------------------------------------------------------- calls
\* Mutant: the entry is enqueued and announced, and no dequeue is attempted.
addCall_NoAttempt(id, priority, signal) ==
  LET s0 == [Self EXCEPT !.tasks[id] = [st |-> "added", sig |-> signal]]
      s1 == enqueue(s0, id, priority)
  IN  emit(s1, "add", [id |-> id, priority |-> priority], "")

\* add(promiseOrAsync, {priority, signal}), for the add() call number id,
\* on the queue in state s
addIn(s, id, priority, signal) ==
  LET s0 == [s EXCEPT !.tasks[id] = [st |-> "added", sig |-> signal]]
      s1 == enqueue(s0, id, priority)
      s2 == emit(s1, "add", [id |-> id, priority |-> priority], "")
  IN  tryToStartAnother(s2).s

addCall(id, priority, signal) == addIn(Self, id, priority, signal)

\* ------------------------------------------------------------------ addAll
\* No addAll() call has been made.
NoBatch ==
  [ids |-> <<>>, failFast |-> FALSE, settled |-> <<>>, state |-> "none",
   result |-> <<>>]

\* What the promise add() returned for task id has settled with, among the
\* promises of the batch that have settled, in the order they settled.
SettledOf(b, id) ==
  LET k == CHOOSE i \in 1..Len(b.settled) : b.settled[i].id = id
  IN  b.settled[k]

\* Mutant: the outcomes are reported in the order the tasks settled.
allSettled_InSettleOrder(b) ==
  IF Len(b.settled) = Len(b.ids)
    THEN [b EXCEPT !.state = "fulfilled", !.result = b.settled]
    ELSE b

\* Promise.allSettled over the promises of the batch: fulfils when each has
\* settled, with one outcome per promise in the order of the input.
allSettled(b) ==
  IF Len(b.settled) = Len(b.ids)
    THEN [b EXCEPT !.state = "fulfilled",
                   !.result = [k \in 1..Len(b.ids) |-> SettledOf(b, b.ids[k])]]
    ELSE b

\* Promise.all over the promises of the batch: rejects with the first
\* rejection, fulfils when each has fulfilled.
all(b) ==
  IF b.state # "pending"
    THEN b
    ELSE IF Len(b.settled) > 0 /\ b.settled[Len(b.settled)].status = "rejected"
           THEN [b EXCEPT !.state = "rejected",
                          !.result = <<b.settled[Len(b.settled)]>>]
           ELSE IF Len(b.settled) = Len(b.ids)
                  THEN [b EXCEPT
                          !.state = "fulfilled",
                          !.result = [k \in 1..Len(b.ids) |->
                                        SettledOf(b, b.ids[k])]]
                  ELSE b

\* The promise add() returned for task id settles: the batch that waits for
\* it takes note.
settleIn(b, id, outcome) ==
  IF \E k \in 1..Len(b.ids) : b.ids[k] = id
    THEN LET status == IF outcome = "fulfilled" THEN "fulfilled" ELSE "rejected"
             b1 == [b EXCEPT !.settled =
                      Append(@, [id |-> id, status |-> status,
                                 value |-> outcome])]
         IN  IF b.failFast THEN all(b1) ELSE allSettled(b1)
    ELSE b

RECURSIVE addEach(_, _, _, _, _)
addEach(s, id, count, priority, signal) ==
  IF count = 0
    THEN s
    ELSE addEach(addIn(s, id, priority, signal), id + 1, count - 1,
                 priority, signal)

\* addAll(promiseOrAsyncs, {priority, signal, failFast}) with count tasks,
\* which are the add() calls number id, id + 1, ...
addAllCall(id, count, priority, signal, failFast) ==
  LET s1 == addEach(Self, id, count, priority, signal)
      b == [ids |-> [k \in 1..count |-> id + k - 1], failFast |-> failFast,
            settled |-> <<>>, state |-> "pending", result |-> <<>>]
  IN  [s1 EXCEPT !.batch = IF failFast THEN all(b) ELSE allSettled(b)]

\* The entry that stands for a started task in the trace: the queue keeps
\* no priority for it once it is dequeued.
Started(id) == [id |-> id, priority |-> 0]

\* Mutant: a fired signal does not reject the awaited operation.
Outcomes_IgnoresSignal(s, id) ==
  {"fulfilled", "error"} \cup (IF s.timeout THEN {"timeout"} ELSE {})

\* What the awaited operation of a running task can settle with: the task's
\* own result or error, the abort reason once its signal has fired, the
\* TimeoutError if the queue has a timeout.
Outcomes(s, id) ==
  IF s.tasks[id].sig = "aborted"
    THEN {"abort"}
    ELSE {"fulfilled", "error"} \cup (IF s.timeout THEN {"timeout"} ELSE {})

\* Mutant: the event is emitted before the promise is settled.
settleCall_EmitsFirst(id, outcome) ==
  LET s0 == [Self EXCEPT !.tasks[id] = DoneTask,
                         !.batch = settleIn(@, id, outcome)]
      s1 == IF outcome = "fulfilled"
              THEN Record(emit(s0, "completed", Started(id), outcome),
                          "resolve", Started(id), outcome)
              ELSE Record(emit(s0, "error", Started(id), outcome),
                          "reject", Started(id), outcome)
  IN  next(s1)

\* The rest of the job after its await: settle the promise add() returned,
\* emit 'completed' or 'error', and in the finally block call #next().
settleCall(id, outcome) ==
  LET s0 == [Self EXCEPT !.tasks[id] = DoneTask,
                         !.batch = settleIn(@, id, outcome)]
      s1 == IF outcome = "fulfilled"
              THEN emit(Record(s0, "resolve", Started(id), outcome),
                        "completed", Started(id), outcome)
              ELSE emit(Record(s0, "reject", Started(id), outcome),
                        "error", Started(id), outcome)
  IN  next(s1)

\* The AbortController of a task fires.  For a running task the listener of
\* PromiseWithAbortSignal rejects the awaited operation; the queue learns of
\* it when the job continues.
abortCall(id) == [Self EXCEPT !.tasks[id].sig = "aborted"]

startCall ==
  IF ~isPaused THEN Self ELSE processQueue([Self EXCEPT !.isPaused = FALSE])

pauseCall == [Self EXCEPT !.isPaused = TRUE]

\* Mutant: clear() also forgets the tasks in flight.
clearCall_ResetsPending == [Self EXCEPT !.queue = <<>>, !.pending = 0]

clearCall == [Self EXCEPT !.queue = <<>>]

\* The setter's validation: typeof 'number' and >= 1.
canSetConcurrency(newConcurrency) == newConcurrency >= Whole(1)

\* set concurrency(newConcurrency)
concurrencyCall(newConcurrency) ==
  IF ~canSetConcurrency(newConcurrency)
    THEN Record(Self, "throw", NoEntry, "TypeError")
    ELSE processQueue([Self EXCEPT !.concurrency = newConcurrency])

onIdleCall ==
  IF pending = 0 /\ Len(queue) = 0
    THEN Record(Self, "onIdle.resolve", NoEntry, "immediate")
    ELSE [Self EXCEPT !.idleWaiters = @ + 1]

onEmptyCall ==
  IF Len(queue) = 0
    THEN Record(Self, "onEmpty.resolve", NoEntry, "immediate")
    ELSE [Self EXCEPT !.emptyWaiters = @ + 1]

onSizeLessThanCall(limit) ==
  IF Len(queue) < limit
    THEN [Self EXCEPT !.trace = Append(@,
            [Step(Self, "onSizeLessThan.resolve", NoEntry, "immediate")
               EXCEPT !.limit = limit])]
    ELSE [Self EXCEPT !.sizeWaiters = @ \cup {limit}]

\* When each call can happen.
canAdd == nextId <= MaxTasks
canSettle(id, outcome) ==
  tasks[id].st = "running" /\ outcome \in Outcomes(Self, id)
canAbort(id) == tasks[id].st \in {"added", "running"} /\ tasks[id].sig = "live"
canOnIdle == (pending = 0 /\ Len(queue) = 0) \/ idleWaiters < MaxWaiters
canAddAll(count) == batch.state = "none" /\ nextId + count - 1 <= MaxTasks
canOnEmpty == Len(queue) = 0 \/ emptyWaiters < MaxWaiters

AllOutcomes == {"fulfilled", "error", "abort", "timeout"}

\* --------------------------------------------------------- RetryController
\* src/src/retry-promise/index.ts.  Times (Date.now(), intervals, deadlines)
\* are held in units of 1/Denominator like the concurrency above; retry
\* counts are plain integers.

MaxRetryCount == 2
MaxErrors == 5

\* Messages of the errors an operation fails with.  'constructor' is also
\* the name of a property every plain object inherits.
Messages == {"A", "B", "constructor"}
ObjectPrototypeKeys == {"constructor", "toString", "valueOf", "__proto__"}

\* An error object: serial tells two errors with one message apart.
Error(message, serial) ==
  [name |-> "Error", message |-> message, serial |-> serial]
RetryError == [name |-> "RetryError", message |-> "Retry timeout", serial |-> 0]
Null == [name |-> "null", message |-> "", serial |-> 0]

\* What getTimeout and #getNextTimeout return for "no interval".
undefined == -1

\* options.getTimeout: left out, a function returning one interval for
\* every count, or a function returning an interval for count 0 only.
GetTimeouts == {"none", "constant", "stops"}

getTimeout(kind, currentRetryCount) ==
  IF kind = "stops" /\ currentRetryCount >= 1 THEN undefined ELSE Whole(1)

\* Math.random() + 1, a value in [1, 2)
Randoms == Whole(1)..(Whole(2) - 1)

\* Math.round of the fraction num/den: halves round up.
round(num, den) == (2 * num + den) \div (2 * den)

RECURSIVE pow(_, _)
pow(base, exponent) ==
  IF exponent = 0 THEN 1 ELSE base * pow(base, exponent - 1)

min_First(a, b) == a

\* Math.min, Math.max and >= on numbers of which the second may be Infinity
min(a, b) == IF b = POSITIVE_INFINITY \/ a <= b THEN a ELSE b
max(a, b) == IF a >= b THEN a ELSE b
atLeast(a, b) == b # POSITIVE_INFINITY /\ a >= b

\* The controller with its fields as the class initialises them.
NewController(options) ==
  [options |-> options, timeoutId |-> 0, errors |-> <<>>, startTime |-> 0,
   retryCount |-> 0, cachedMainError |-> Null, isMainErrorStale |-> TRUE,
   func |-> "noop"]

\* The constructor, on the options already merged over the defaults:
\* raises maxTimeInterval to minTimeInterval, then validates.
RetryController(options) ==
  LET clamped == IF options.maxTimeInterval # POSITIVE_INFINITY
                      /\ options.minTimeInterval > options.maxTimeInterval
                   THEN [options EXCEPT !.maxTimeInterval = options.minTimeInterval]
                   ELSE options
  IN  [thrown |-> \/ clamped.minTimeInterval < 0
                  \/ clamped.maxTimeInterval < 0
                  \/ clamped.maxRetryTime < 0
                  \/ clamped.incrementIntervalFactor < Whole(1)
                  \/ clamped.maxRetryCount <= 0,
       controller |-> NewController(clamped)]

NoTimers == [armed |-> {}, created |-> 0]
NoSession == [state |-> "idle", calls |-> <<>>, inFlight |-> 0,
              promise |-> "none", value |-> Null, reported |-> <<>>]

\* The value the k-th invocation of the wrapped function resolves with
Result(k) == [name |-> "result", message |-> "", serial |-> k]

\* The controller in its environment, with what a call of retry() returned
\* and scheduled, the calls of options.onError it made, and what a read of
\* mainError gave.
World ==
  [call |-> 1, controller |-> controller, timers |-> timers, now |-> now,
   session |-> session, returned |-> FALSE, scheduled |-> undefined,
   onError |-> <<>>, read |-> Null]

\* The other call in the same environment
OtherWorld ==
  [World EXCEPT !.call = 2, !.controller = other.controller,
                !.session = other.session]

NoOther == [controller |-> Null, session |-> NoSession]
\* No CancelablePromise, TimeoutPromise or debounced function exists.
NoWrappers == cancelable = Null /\ timed = Null /\ debounced = Null

clearTimeout(w, id) ==
  [w EXCEPT !.timers.armed = {t \in @ : t.id # id}]

setTimeout(w, delay) ==
  LET id == w.timers.created + 1
  IN  [w EXCEPT !.timers = [armed |-> @.armed \cup
                                        {[id |-> id, due |-> w.now + delay,
                                          owner |-> w.call]},
                            created |-> id],
                !.controller.timeoutId = id,
                !.scheduled = delay]

getNextTimeout_NoLimit(options, currentRetryCount, random) ==
  IF options.getTimeout # "none"
    THEN getTimeout(options.getTimeout, currentRetryCount)
    ELSE min(Whole(round((IF options.incrementIntervalRandomize
                            THEN random ELSE Whole(1))
                           * max(options.minTimeInterval, Whole(1)),
                         Denominator * Denominator)
                   * pow(options.incrementIntervalFactor \div Denominator,
                         currentRetryCount)),
             options.maxTimeInterval)

\* #getNextTimeout: no interval once the count has reached maxRetryCount;
\* else getTimeout's answer when given; else the rounded, possibly
\* randomized, minimum interval times the factor to the power of the
\* count, capped by maxTimeInterval.
getNextTimeout(options, currentRetryCount, random) ==
  IF currentRetryCount >= options.maxRetryCount
    THEN undefined
    ELSE IF options.getTimeout # "none"
      THEN getTimeout(options.getTimeout, currentRetryCount)
      ELSE min(Whole(round((IF options.incrementIntervalRandomize
                              THEN random ELSE Whole(1))
                             * max(options.minTimeInterval, Whole(1)),
                           Denominator * Denominator)
                     * pow(options.incrementIntervalFactor \div Denominator,
                           currentRetryCount)),
               options.maxTimeInterval)

onError_KeepsCache(w, error, currentRetryCount, nextTimeInterval) ==
  [w EXCEPT !.onError = Append(@, [error |-> error,
                                   currentRetryCount |-> currentRetryCount,
                                   nextTimeInterval |-> nextTimeInterval]),
            !.controller.errors = Append(@, error)]

\* #onError: the options' onError callback, then the error is recorded.
onError(w, error, currentRetryCount, nextTimeInterval) ==
  [w EXCEPT !.onError = Append(@, [error |-> error,
                                   currentRetryCount |-> currentRetryCount,
                                   nextTimeInterval |-> nextTimeInterval]),
            !.controller.errors = Append(@, error),
            !.controller.isMainErrorStale = TRUE]

retryCall_KeepsHistory(w, error, random) ==
  LET cleared == IF w.controller.timeoutId # 0
                   THEN clearTimeout(w, w.controller.timeoutId) ELSE w
      c == cleared.controller
      nextTimeout == getNextTimeout(c.options, c.retryCount, random)
  IN  IF error = Null
        THEN [cleared EXCEPT !.returned = FALSE]
        ELSE IF atLeast(cleared.now - c.startTime, c.options.maxRetryTime)
          THEN [onError(onError(cleared, error, c.retryCount, 0),
                        RetryError, c.retryCount, 0)
                  EXCEPT !.returned = FALSE]
          ELSE IF nextTimeout = undefined
            THEN [onError(cleared, error, c.retryCount, 0)
                    EXCEPT !.returned = FALSE]
            ELSE [setTimeout(onError(cleared, error, c.retryCount, nextTimeout),
                             nextTimeout)
                    EXCEPT !.returned = TRUE]

retryCall_NullKeepsTimer(w, error, random) ==
  LET c == w.controller
      nextTimeout == getNextTimeout(c.options, c.retryCount, random)
  IN  IF error = Null
        THEN [w EXCEPT !.returned = FALSE]
        ELSE IF nextTimeout = undefined
          THEN [onError(w, error, c.retryCount, 0) EXCEPT !.returned = FALSE]
          ELSE [setTimeout(onError(w, error, c.retryCount, nextTimeout),
                           nextTimeout)
                  EXCEPT !.returned = TRUE]

retryCall_KeepsTimer(w, error, random) ==
  LET c == w.controller
      nextTimeout == getNextTimeout(c.options, c.retryCount, random)
  IN  IF error = Null
        THEN [w EXCEPT !.returned = FALSE]
        ELSE IF atLeast(w.now - c.startTime, c.options.maxRetryTime)
          THEN [onError([onError(w, error, c.retryCount, 0)
                           EXCEPT !.controller.errors = <<>>],
                        RetryError, c.retryCount, 0)
                  EXCEPT !.returned = FALSE]
          ELSE IF nextTimeout = undefined
            THEN [onError(w, error, c.retryCount, 0)
                    EXCEPT !.returned = FALSE]
            ELSE [setTimeout(onError(w, error, c.retryCount, nextTimeout),
                             nextTimeout)
                    EXCEPT !.returned = TRUE]

\* retry(error): clears the scheduled callback; without an error returns
\* false; past the deadline replaces the history by one RetryError; else
\* records the error and schedules the next attempt if an interval is left.
retryCall(w, error, random) ==
  LET cleared == IF w.controller.timeoutId # 0
                   THEN clearTimeout(w, w.controller.timeoutId) ELSE w
      c == cleared.controller
      nextTimeout == getNextTimeout(c.options, c.retryCount, random)
  IN  IF error = Null
        THEN [cleared EXCEPT !.returned = FALSE]
        ELSE IF atLeast(cleared.now - c.startTime, c.options.maxRetryTime)
          THEN [onError([onError(cleared, error, c.retryCount, 0)
                           EXCEPT !.controller.errors = <<>>],
                        RetryError, c.retryCount, 0)
                  EXCEPT !.returned = FALSE]
          ELSE IF nextTimeout = undefined
            THEN [onError(cleared, error, c.retryCount, 0)
                    EXCEPT !.returned = FALSE]
            ELSE [setTimeout(onError(cleared, error, c.retryCount, nextTimeout),
                             nextTimeout)
                    EXCEPT !.returned = TRUE]

\* this.#func(retryCount): the stored function is invoked.  The function
\* RetryPromise stores starts one attempt of the wrapped operation.
invoke(w, retryCount) ==
  IF w.controller.func = "noop"
    THEN w
    ELSE [w EXCEPT !.session.calls = Append(@, retryCount),
                   !.session.inFlight = @ + 1]

\* try(func)
tryCall(w, func) ==
  invoke([w EXCEPT !.controller.func = func,
                   !.controller.startTime = w.now],
         w.controller.retryCount)

stopCall_LeavesTimer(w) ==
  [w EXCEPT !.controller.errors = <<>>,
            !.controller.isMainErrorStale = TRUE,
            !.controller.cachedMainError = Null]

\* stop()
stopCall(w) ==
  [(IF w.controller.timeoutId # 0
      THEN clearTimeout(w, w.controller.timeoutId) ELSE w)
     EXCEPT !.controller.errors = <<>>,
            !.controller.isMainErrorStale = TRUE,
            !.controller.cachedMainError = Null]

\* reset()
resetCall(w) == [stopCall(w) EXCEPT !.controller.retryCount = 0]

timeoutCall_KeepsCount(w) == invoke(w, w.controller.retryCount)

timeoutCall_IncrementsTwice(w) ==
  invoke([w EXCEPT !.controller.retryCount = @ + 2],
         w.controller.retryCount + 2)

\* The callback retry() hands to setTimeout
timeoutCall(w) ==
  invoke([w EXCEPT !.controller.retryCount = @ + 1],
         w.controller.retryCount + 1)

\* What (counts[message] || 0) + 1 gives when counts[message] is no number
NotANumber == -2

\* (counts[message] || 0) + 1, counts being a plain object: a message that
\* names an inherited property finds that property's value, or the text
\* stored for it by an earlier turn of the loop, and the sum is a text.
increment(counts, message) ==
  IF message \in ObjectPrototypeKeys THEN NotANumber ELSE counts[message] + 1

\* count >= mainErrorCount: a text that is no numeral compares false
reaches(count, mainErrorCount) ==
  count # NotANumber /\ count >= mainErrorCount

\* The loop of the mainError getter over errors[k..]
RECURSIVE mainErrorLoop(_, _, _, _, _)
mainErrorLoop(errors, k, counts, mainError, mainErrorCount) ==
  IF k > Len(errors)
    THEN mainError
    ELSE LET error == errors[k]
             count == increment(counts, error.message)
         IN  IF reaches(count, mainErrorCount)
               THEN mainErrorLoop(errors, k + 1,
                                  [counts EXCEPT ![error.message] = count],
                                  error, count)
               ELSE mainErrorLoop(errors, k + 1,
                                  [counts EXCEPT ![error.message] = count],
                                  mainError, mainErrorCount)

\* get mainError: the cached answer while it is fresh, else the loop's
\* answer, which is cached.
mainError(w) ==
  LET c == w.controller
      computed == mainErrorLoop(c.errors, 1,
                                [m \in {c.errors[k].message : k \in 1..Len(c.errors)} |-> 0],
                                Null, 0)
  IN  IF ~c.isMainErrorStale /\ Len(c.errors) = 0
        THEN [w EXCEPT !.read = Null]
        ELSE IF ~c.isMainErrorStale /\ c.cachedMainError # Null
          THEN [w EXCEPT !.read = c.cachedMainError]
          ELSE IF Len(c.errors) = 0
            THEN [w EXCEPT !.controller.cachedMainError = Null,
                           !.controller.isMainErrorStale = FALSE,
                           !.read = Null]
            ELSE [w EXCEPT !.controller.cachedMainError = computed,
                           !.controller.isMainErrorStale = FALSE,
                           !.read = computed]

\* ------------------------------------------------------------ RetryPromise

retryPromiseCall_SharedController(w) ==
  tryCall([w EXCEPT !.session = [NoSession EXCEPT !.state = "called",
                                                  !.promise = "pending"]],
          "operation")

\* One call of the function RetryPromise returns, without a signal: a new
\* controller, a new promise, and controller.try with the attempt function.
retryPromiseCall(w) ==
  tryCall([w EXCEPT !.controller = NewController(w.controller.options),
                    !.session = [NoSession EXCEPT !.state = "called",
                                                  !.promise = "pending"]],
          "operation")

\* reject() of the returned promise: the first settlement counts.
reject(w, value) ==
  IF w.session.promise = "pending"
    THEN [w EXCEPT !.session.promise = "rejected", !.session.value = value]
    ELSE w

\* resolve() of the returned promise
resolve(w, value) ==
  IF w.session.promise = "pending"
    THEN [w EXCEPT !.session.promise = "fulfilled", !.session.value = value]
    ELSE w

\* The calls of options.onError made by the running call are what the
\* caller of RetryPromise gets to see of the retries.
report(w) == [w EXCEPT !.session.reported = @ \o w.onError]

\* The attempt function's onError, run when an attempt has failed after
\* some time: retry, and when that is refused reject with mainError and
\* stop.
attemptFailed(w, error, duration, random) ==
  LET later == [w EXCEPT !.now = @ + duration, !.session.inFlight = @ - 1]
      retried == retryCall(later, error, random)
      main == mainError(retried)
  IN  IF retried.returned
        THEN report(retried)
        ELSE report(stopCall(reject(main, main.read)))

\* An attempt has fulfilled after some time.
attemptFulfilled(w, duration) ==
  resolve([w EXCEPT !.now = @ + duration, !.session.inFlight = @ - 1],
          Result(Len(w.session.calls)))

\* The host runs a due timer's callback, waiting for its time if need be.
timerFired(w, t) ==
  timeoutCall([w EXCEPT !.now = max(@, t.due),
                        !.timers.armed = @ \ {t}])

\* ----------------------------------------------------------------- actions
Commit(s) ==
  /\ queue' = s.queue
  /\ pending' = s.pending
  /\ concurrency' = s.concurrency
  /\ isPaused' = s.isPaused
  /\ timeout' = s.timeout
  /\ tasks' = s.tasks
  /\ idleWaiters' = s.idleWaiters
  /\ emptyWaiters' = s.emptyWaiters
  /\ sizeWaiters' = s.sizeWaiters
  /\ batch' = s.batch
  /\ UNCHANGED retryVars
  /\ UNCHANGED wrapperVars

TypeOK ==
  /\ pending \in Int
  /\ concurrency \in {c \in ConcurrencyValues : c >= Whole(1)}
  /\ isPaused \in BOOLEAN
  /\ timeout \in BOOLEAN
  /\ nextId \in 1..(MaxTasks + 1)
  /\ idleWaiters \in 0..MaxWaiters
  /\ emptyWaiters \in 0..MaxWaiters
  /\ sizeWaiters \subseteq Limits

\* The options a queue is constructed with: concurrency given or left out,
\* autoStart, and whether a timeout is given.
QueueOptions ==
  [hasConcurrency : BOOLEAN, concurrency : ConcurrencyValues,
   autoStart : BOOLEAN, timeout : BOOLEAN]

getDefaultQueueOptions == [concurrency |-> POSITIVE_INFINITY, autoStart |-> TRUE]

\* Number.isInteger: Infinity is not an integer.
isInteger(n) == n # POSITIVE_INFINITY /\ n % Denominator = 0

\* The constructor: merges the options over the defaults, validates the
\* concurrency, and sets the fields.
constructor(options) ==
  LET merged == IF options.hasConcurrency
                  THEN options.concurrency
                  ELSE getDefaultQueueOptions.concurrency
  IN  IF merged = 0 \/ ~isInteger(merged) \/ merged < 0
        THEN [thrown |-> TRUE, concurrency |-> 0, isPaused |-> FALSE,
              timeout |-> FALSE]
        ELSE [thrown |-> FALSE, concurrency |-> merged,
              isPaused |-> ~options.autoStart, timeout |-> options.timeout]

\* new PromiseQueue(options), for the options the constructor accepts
Init ==
  /\ queue = <<>>
  /\ pending = 0
  /\ \E options \in QueueOptions :
       /\ ~constructor(options).thrown
       /\ concurrency = constructor(options).concurrency
       /\ isPaused = constructor(options).isPaused
       /\ timeout = constructor(options).timeout
  /\ tasks = [id \in TaskIds |-> NewTask]
  /\ nextId = 1
  /\ idleWaiters = 0
  /\ emptyWaiters = 0
  /\ sizeWaiters = {}
  /\ batch = NoBatch
  /\ controller = Null
  /\ timers = NoTimers
  /\ now = 0
  /\ session = NoSession
  /\ other = NoOther
  /\ NoWrappers

add(priority, signal) ==
  /\ canAdd
  /\ Commit(addCall(nextId, priority, signal))
  /\ nextId' = nextId + 1

settle(id, outcome) ==
  /\ canSettle(id, outcome)
  /\ Commit(settleCall(id, outcome))
  /\ UNCHANGED nextId

abort(id) ==
  /\ canAbort(id)
  /\ Commit(abortCall(id))
  /\ UNCHANGED nextId

start ==
  /\ Commit(startCall)
  /\ UNCHANGED nextId

pause ==
  /\ Commit(pauseCall)
  /\ UNCHANGED nextId

clear ==
  /\ Commit(clearCall)
  /\ UNCHANGED nextId

setConcurrency(newConcurrency) ==
  /\ Commit(concurrencyCall(newConcurrency))
  /\ UNCHANGED nextId

onIdle ==
  /\ canOnIdle
  /\ Commit(onIdleCall)
  /\ UNCHANGED nextId

Next ==
  \/ \E p \in Priorities, g \in Signals : add(p, g)
  \/ \E id \in TaskIds, o \in AllOutcomes : settle(id, o)
  \/ \E id \in TaskIds : abort(id)
  \/ start
  \/ pause
  \/ clear
  \/ \E c \in ConcurrencyValues : setConcurrency(c)
  \/ onIdle

Spec == Init /\ [][Next]_vars

\* The queue with callers of onEmpty() and onSizeLessThan().  Entries are
\* added with the default priority 0: the order of the waiting list plays
\* no part in its length.
onEmpty ==
  /\ canOnEmpty
  /\ Commit(onEmptyCall)
  /\ UNCHANGED nextId

onSizeLessThan(limit) ==
  /\ Commit(onSizeLessThanCall(limit))
  /\ UNCHANGED nextId

NextNotify ==
  \/ \E g \in Signals : add(0, g)
  \/ \E id \in TaskIds, o \in AllOutcomes : settle(id, o)
  \/ \E id \in TaskIds : abort(id)
  \/ start
  \/ pause
  \/ clear
  \/ \E c \in ConcurrencyValues : setConcurrency(c)
  \/ onEmpty
  \/ \E limit \in Limits : onSizeLessThan(limit)

SpecNotify == Init /\ [][NextNotify]_vars

\* The queue with a caller of addAll(), whose tasks are the only ones.
addAll(count, priority, signal, failFast) ==
  /\ canAddAll(count)
  /\ Commit(addAllCall(nextId, count, priority, signal, failFast))
  /\ nextId' = nextId + count

BatchSizes == 0..MaxTasks

NextAddAll ==
  \/ \E n \in BatchSizes, p \in Priorities, g \in Signals, f \in BOOLEAN :
       addAll(n, p, g, f)
  \/ \E id \in TaskIds, o \in AllOutcomes : settle(id, o)
  \/ \E id \in TaskIds : abort(id)
  \/ start
  \/ pause
  \/ clear
  \/ \E c \in ConcurrencyValues : setConcurrency(c)

SpecAddAll == Init /\ [][NextAddAll]_vars

\* ------------------------------------------------------------------- runs
\* The calls that can happen next in the current state, each with the state
\* and trace it produces.
Run(name, id, s) == [op |-> name, id |-> id, s |-> s]

AddRuns ==
  {Run("add", nextId, addCall(nextId, p, g)) :
     p \in IF canAdd THEN Priorities ELSE {}, g \in Signals}

Runs ==
  AddRuns
  \cup {Run("settle", x[1], settleCall(x[1], x[2])) :
          x \in {y \in TaskIds \X AllOutcomes : canSettle(y[1], y[2])}}
  \cup {Run("abort", id, abortCall(id)) : id \in {i \in TaskIds : canAbort(i)}}
  \cup {Run("start", 0, startCall), Run("pause", 0, pauseCall),
        Run("clear", 0, clearCall)}
  \cup {Run("concurrency", 0, concurrencyCall(c)) :
          c \in {v \in ConcurrencyValues : canSetConcurrency(v)}}
  \cup (IF canOnIdle THEN {Run("onIdle", 0, onIdleCall)} ELSE {})

NotifyRuns ==
  Runs
  \cup (IF canOnEmpty THEN {Run("onEmpty", 0, onEmptyCall)} ELSE {})
  \cup {Run("onSizeLessThan", limit, onSizeLessThanCall(limit)) :
          limit \in Limits}

Steps(run) == {run.s.trace[k] : k \in 1..Len(run.s.trace)}

Count(run, ev) ==
  Cardinality({k \in 1..Len(run.s.trace) : run.s.trace[k].ev = ev})

QueuedIds(q) == {q[k].id : k \in 1..Len(q)}

Min(a, b) == IF a <= b THEN a ELSE b
Max(a, b) == IF a >= b THEN a ELSE b

\* An entry that was added and then removed by clear() without being started.
Discarded(id) == tasks[id].st = "added" /\ id \notin QueuedIds(queue)


\* ----------------------------------------------------------------- claims

C2_PendingNeverExceedsConcurrency == Whole(pending) <= concurrency

\* The in-flight count a call starts from: a settling task has released its
\* slot before anything is started.
Released(run) == IF run.op = "settle" THEN pending - 1 ELSE pending

\* C2 as amended: an entry is started only at a moment when pending is below
\* the concurrency limit, so a start never takes the in-flight count a whole
\* task above the limit; the count can still exceed the limit, because an
\* assignment of a lower concurrency stops no running task, and while
\* pending is at or above the limit no entry is started.
C2_StartsOnlyBelowLimit ==
  \A run \in Runs :
    /\ \A step \in Steps(run) :
         step.ev = "inc" => Whole(step.pending - 1) < run.s.concurrency
    /\ Whole(Released(run)) >= run.s.concurrency =>
         Count(run, "active") = 0 /\ run.s.pending = Released(run)
    /\ (Whole(run.s.pending) > run.s.concurrency /\ Whole(pending) <= concurrency) =>
         \/ run.op = "concurrency" /\ run.s.concurrency < concurrency
         \/ Whole(run.s.pending - 1) < run.s.concurrency

\* The limit was lowered to a whole task or more below the in-flight count,
\* and a running queue holds a waiting entry it does not start.
C2_Witness ==
  /\ Whole(pending) >= concurrency + Whole(1)
  /\ ~isPaused
  /\ Len(queue) > 0

\* C3 as claimed: when a task's function is invoked, the in-flight count,
\* that task included, is at most the concurrency limit of that moment.
C3_InvokedWithinConcurrency ==
  \A run \in Runs : \A step \in Steps(run) :
    step.ev = "invoke" => Whole(step.pending) <= run.s.concurrency

\* C4: pending is the number of tasks started and not yet settled; a call
\* increments it once per task it starts and decrements it once when it is
\* the settling of a task, with any outcome; it is never negative.
C4_PendingCountsRunningTasks ==
  /\ pending = Cardinality({id \in TaskIds : tasks[id].st = "running"})
  /\ pending >= 0
  /\ \A run \in Runs :
       /\ Count(run, "inc") =
            Cardinality({id \in TaskIds : /\ tasks[id].st # "running"
                                          /\ run.s.tasks[id].st = "running"})
       /\ Count(run, "dec") = (IF run.op = "settle" THEN 1 ELSE 0)
       /\ run.s.pending = pending + Count(run, "inc") - Count(run, "dec")
       /\ run.op = "settle" => run.s.tasks[run.id].st = "done"

\* Two tasks are in flight, one about to be rejected by its abort signal
\* and one by the timeout.
C4_Witness ==
  /\ pending = 2
  /\ \E run \in Runs : \E step \in Steps(run) :
       run.op = "settle" /\ step.ev = "reject" /\ step.arg = "abort"
  /\ \E run \in Runs : \E step \in Steps(run) :
       run.op = "settle" /\ step.ev = "reject" /\ step.arg = "timeout"

\* C5: add() emits 'add' with the entry enqueued and nothing started yet,
\* then attempts a dequeue: on a running queue with pending below the limit
\* the head entry is started before add() returns (an idle queue ends with
\* size 0 and pending 1); on a paused or full queue the entry stays waiting.
C5_AddEmitsThenAttemptsDequeue ==
  \A run \in AddRuns :
    run.op = "add" =>
      LET tr == run.s.trace
      IN  /\ Len(tr) >= 1
          /\ tr[1].ev = "add"
          /\ Len(tr[1].queue) = Len(queue) + 1
          /\ tr[1].pending = pending
          /\ IF ~isPaused /\ Whole(pending) < concurrency
               THEN /\ Len(tr) >= 2
                    /\ tr[2].ev = "active"
                    /\ tr[2].entry = Head(tr[1].queue)
                    /\ run.s.tasks[tr[2].entry.id].st = "running"
                    /\ run.s.pending = pending + 1
                    /\ Len(run.s.queue) = Len(queue)
                    /\ (Len(queue) = 0 /\ pending = 0) =>
                         (Len(run.s.queue) = 0 /\ run.s.pending = 1)
               ELSE /\ Count(run, "active") = 0
                    /\ Len(run.s.queue) = Len(queue) + 1
                    /\ run.s.pending = pending

\* A running queue that is idle again after a task has settled, and on
\* which add() is called once more.
C5_Witness ==
  /\ ~isPaused
  /\ pending = 0
  /\ Len(queue) = 0
  /\ \E id \in TaskIds : tasks[id].st = "done"
  /\ \E run \in AddRuns :
       run.op = "add" /\ run.s.pending = 1 /\ Len(run.s.queue) = 0

\* C6: a call that leaves the queue paused starts nothing: pending does
\* not grow, only clear() shrinks the waiting list, and a task that settles
\* meanwhile still releases its slot.
C6_PausedStartsNothing ==
  \A run \in Runs :
    run.s.isPaused =>
      /\ Count(run, "active") = 0
      /\ Count(run, "inc") = 0
      /\ run.s.pending <= pending
      /\ Len(run.s.queue) < Len(queue) => run.op = "clear"
      /\ run.op = "settle" => run.s.pending = pending - 1

\* A paused queue with a waiting entry and a free slot, on which a task in
\* flight settles.
C6_Witness ==
  /\ isPaused
  /\ Len(queue) > 0
  /\ Whole(pending) < concurrency
  /\ \E run \in Runs : run.op = "settle" /\ Len(run.s.queue) = Len(queue)

\* C7 as claimed: start() on a paused queue and an assignment to concurrency
\* on a running queue start waiting entries until none waits or pending
\* reaches the limit: pending becomes
\* max(pending, min(concurrency, pending + size)).
C7_DrainsUpToLimit ==
  \A run \in Runs :
    (run.op = "start" /\ isPaused) \/ (run.op = "concurrency" /\ ~isPaused) =>
      Whole(run.s.pending) =
        Max(Whole(pending), Min(run.s.concurrency, Whole(pending + Len(queue))))

\* C8: clear() empties the waiting list and changes nothing else, emits
\* nothing and invokes nothing; an entry it removed is never started, and
\* the promise add() returned for it is never settled.
C8_ClearOnlyDropsWaiting ==
  \A run \in Runs :
    /\ run.op = "clear" =>
         /\ run.s.queue = <<>>
         /\ run.s.pending = pending
         /\ run.s.isPaused = isPaused
         /\ run.s.concurrency = concurrency
         /\ run.s.timeout = timeout
         /\ run.s.tasks = tasks
         /\ run.s.idleWaiters = idleWaiters
         /\ run.s.trace = <<>>
    /\ \A id \in TaskIds :
         Discarded(id) =>
           /\ run.s.tasks[id].st = "added"
           /\ id \notin QueuedIds(run.s.queue)
           /\ \A step \in Steps(run) : step.entry.id # id

\* An entry was removed by clear() while another task is in flight, and its
\* abort signal has fired since.
C8_Witness ==
  /\ pending > 0
  /\ \E id \in TaskIds : Discarded(id) /\ tasks[id].sig = "aborted"

\* C9: a promise returned by onIdle() is resolved only at an instant at
\* which nothing waits and nothing is in flight, and a registered onIdle()
\* promise leaves the listeners only by being resolved.
C9_IdleResolvedOnlyWhenIdle ==
  \A run \in Runs :
    /\ \A step \in Steps(run) :
         step.ev = "onIdle.resolve" =>
           Len(step.queue) = 0 /\ step.pending = 0
    /\ run.s.idleWaiters < idleWaiters =>
         Count(run, "onIdle.resolve") = idleWaiters
    /\ (run.op = "onIdle" /\ ~(Len(queue) = 0 /\ pending = 0)) =>
         Count(run, "onIdle.resolve") = 0

\* An onIdle() promise is registered, a task added after it is the only one
\* in flight, and its settling resolves the promise.
C9_Witness ==
  /\ idleWaiters > 0
  /\ pending = 1
  /\ \E id \in TaskIds : tasks[id].st = "running" /\ id > 1
  /\ \E run \in Runs : \E step \in Steps(run) :
       run.op = "settle" /\ step.ev = "onIdle.resolve"

\* C10 as claimed: once nothing waits and nothing is in flight, every
\* promise onIdle() returned has been resolved, with no further call on the
\* queue.
C10_IdleLeavesNoWaiter ==
  (Len(queue) = 0 /\ pending = 0) => idleWaiters = 0

\* C11 as claimed: a promise returned by onEmpty() while entries waited is
\* resolved in the call that dequeues the last waiting entry.
C11_EmptyResolvedWhenLastDequeued ==
  \A run \in NotifyRuns :
    (Len(queue) > 0 /\ Len(run.s.queue) = 0 /\ Count(run, "active") > 0) =>
      run.s.emptyWaiters = 0

\* C12: onSizeLessThan(limit) resolves at once when size < limit at the
\* call and registers a listener otherwise; a registered promise is
\* resolved only at an instant at which size < limit, and leaves the
\* listeners only by being resolved.
C12_SizeResolvedOnlyBelowLimit ==
  \A run \in NotifyRuns :
    /\ \A step \in Steps(run) :
         step.ev = "onSizeLessThan.resolve" => Len(step.queue) < step.limit
    /\ \A limit \in sizeWaiters \ run.s.sizeWaiters :
         \E step \in Steps(run) :
           /\ step.ev = "onSizeLessThan.resolve"
           /\ step.limit = limit
           /\ step.arg = "listener"
    /\ run.op = "onSizeLessThan" =>
         IF Len(queue) < run.id
           THEN /\ Len(run.s.trace) = 1
                /\ run.s.trace[1].ev = "onSizeLessThan.resolve"
                /\ run.s.trace[1].arg = "immediate"
                /\ run.s.sizeWaiters = sizeWaiters
           ELSE /\ run.s.trace = <<>>
                /\ run.s.sizeWaiters = sizeWaiters \cup {run.id}

\* Two entries wait with listeners for limits 1 and 2 registered; a task
\* settles, one entry is dequeued, and only the listener for limit 2 is
\* resolved.
C12_Witness ==
  /\ sizeWaiters = {1, 2}
  /\ Len(queue) = 2
  /\ \E run \in NotifyRuns :
       /\ run.op = "settle"
       /\ run.s.sizeWaiters = {1}
       /\ \E step \in Steps(run) :
            step.ev = "onSizeLessThan.resolve" /\ step.limit = 2

\* C13 as claimed: an assignment to concurrency is accepted only for a
\* positive whole number or Infinity; for any other value it throws a
\* TypeError and leaves the limit, pending and the waiting list unchanged.
C13_SetterAcceptsOnlyWholeOrInfinity ==
  \A c \in ConcurrencyValues :
    LET s == concurrencyCall(c)
        thrown == \E k \in 1..Len(s.trace) : s.trace[k].ev = "throw"
    IN  IF c \in {Whole(n) : n \in 1..POSITIVE_INFINITY}
          THEN ~thrown /\ s.concurrency = c
          ELSE /\ thrown
               /\ s.concurrency = concurrency
               /\ s.pending = pending
               /\ s.queue = queue

\* C14 as claimed: constructing a queue without a concurrency option
\* succeeds and gives a queue whose concurrency is Infinity, a limit that
\* leaves a free slot whatever number of tasks is in flight.
C14_DefaultConstructionUnbounded ==
  \A options \in QueueOptions :
    ~options.hasConcurrency =>
      /\ ~constructor(options).thrown
      /\ constructor(options).concurrency = POSITIVE_INFINITY
      /\ Whole(pending) < constructor(options).concurrency

AbortedWaiting(id) ==
  /\ tasks[id].st = "added"
  /\ tasks[id].sig = "aborted"
  /\ id \in QueuedIds(queue)

Durations == {0, Whole(1)}

\* The options of the calls followed: any retry limit, with and without a
\* getTimeout and a deadline, the interval arithmetic left at 1, factor 2.
SessionOptions ==
  [maxRetryCount : 1..MaxRetryCount,
   minTimeInterval : {Whole(1)},
   maxTimeInterval : {POSITIVE_INFINITY},
   maxRetryTime : {0, Whole(1), POSITIVE_INFINITY},
   incrementIntervalFactor : {Whole(2)},
   incrementIntervalRandomize : {FALSE},
   getTimeout : GetTimeouts]

RetryCommit(w) ==
  /\ controller' = w.controller
  /\ timers' = w.timers
  /\ now' = w.now
  /\ session' = w.session
  /\ UNCHANGED other
  /\ UNCHANGED queueVars
  /\ UNCHANGED wrapperVars

\* new PromiseQueue({concurrency: 1}), left alone
NoQueue ==
  /\ queue = <<>>
  /\ pending = 0
  /\ concurrency = Whole(1)
  /\ isPaused = FALSE
  /\ timeout = FALSE
  /\ tasks = [id \in TaskIds |-> NewTask]
  /\ nextId = 1
  /\ idleWaiters = 0
  /\ emptyWaiters = 0
  /\ sizeWaiters = {}
  /\ batch = NoBatch

\* RetryPromise(func, options) has returned the wrapped function.
InitRetryPromise ==
  /\ NoQueue
  /\ \E options \in SessionOptions :
       /\ ~RetryController(options).thrown
       /\ controller = RetryController(options).controller
  /\ timers = NoTimers
  /\ now = 0
  /\ session = NoSession
  /\ other = NoOther
  /\ NoWrappers

canCall == session.state = "idle"
canSettleAttempt == session.inFlight > 0

retryPromise ==
  /\ canCall
  /\ RetryCommit(retryPromiseCall(World))

attemptFails(message, duration, random) ==
  /\ canSettleAttempt
  /\ RetryCommit(attemptFailed(World, Error(message, Len(session.calls)),
                               duration, random))

attemptFulfils(duration) ==
  /\ canSettleAttempt
  /\ RetryCommit(attemptFulfilled(World, duration))

timerFires ==
  \E t \in timers.armed : t.owner = 1 /\ RetryCommit(timerFired(World, t))

NextRetryPromise ==
  \/ retryPromise
  \/ \E m \in Messages, d \in Durations, r \in Randoms : attemptFails(m, d, r)
  \/ \E d \in Durations : attemptFulfils(d)
  \/ timerFires

SpecRetryPromise == InitRetryPromise /\ [][NextRetryPromise]_vars

RetryTypeOK ==
  /\ controller.retryCount \in Nat
  /\ controller.timeoutId \in 0..timers.created
  /\ now \in Nat
  /\ session.inFlight \in Nat
  /\ session.promise \in {"none", "pending", "fulfilled", "rejected"}

\* ------------------------------------------------- claims: RetryController

\* The outcomes of the attempt in flight failing now
FailRuns ==
  IF canSettleAttempt
    THEN {attemptFailed(World, Error(m, Len(session.calls)), d, r) :
            m \in Messages, d \in Durations, r \in Randoms}
    ELSE {}

NoDeadline == controller.options.maxRetryTime = POSITIVE_INFINITY

\* getTimeout, when given, returns an interval for every count below the
\* retry limit.
IntervalsGiven ==
  \A n \in 0..(controller.options.maxRetryCount - 1) :
    controller.options.getTimeout = "none"
      \/ getTimeout(controller.options.getTimeout, n) # undefined

\* The operation has been invoked with the counts 0, 1, 2, ... up to the
\* limit at most; the call that failed on every attempt has used all of
\* them; the failure of the attempt with the limit as its count is not
\* retried.
InvokedOncePerCount ==
  /\ controller.retryCount <= controller.options.maxRetryCount
  /\ Len(session.calls) <= controller.options.maxRetryCount + 1
  /\ \A k \in 1..Len(session.calls) : session.calls[k] = k - 1
  /\ session.promise = "rejected" =>
       Len(session.calls) = controller.options.maxRetryCount + 1
  /\ \A w \in FailRuns :
       controller.retryCount = controller.options.maxRetryCount =>
         /\ ~w.returned
         /\ w.scheduled = undefined
         /\ w.timers.armed = {}

\* C17 as stated: with maxRetryCount = N and no deadline, an operation that
\* fails on every attempt is invoked exactly N+1 times, with the counts
\* 0..N; retryCount never exceeds N; the failure of attempt N makes retry()
\* return false and schedules nothing.
C17_InvokedLimitPlusOneTimes == NoDeadline => InvokedOncePerCount

\* C17, amended: the same for the calls whose getTimeout, if there is one,
\* returns an interval for every count below N.
C17_InvokedLimitPlusOneTimesWithIntervals ==
  (NoDeadline /\ IntervalsGiven) => InvokedOncePerCount

\* A call with the largest limit and a getTimeout has failed on every
\* attempt and rejected.
C17_Witness ==
  /\ NoDeadline
  /\ IntervalsGiven
  /\ controller.options.getTimeout = "constant"
  /\ controller.options.maxRetryCount = MaxRetryCount
  /\ session.promise = "rejected"
  /\ Len(session.calls) = MaxRetryCount + 1

\* The attempt in flight failing now: how long it took, the controller
\* after retry(error), and the call after the attempt function's onError
RetryRuns ==
  IF canSettleAttempt
    THEN {[duration |-> d,
           retried |-> retryCall([World EXCEPT !.now = @ + d,
                                               !.session.inFlight = @ - 1],
                                 Error(m, Len(session.calls)), r),
           settled |-> attemptFailed(World, Error(m, Len(session.calls)),
                                     d, r)] :
            m \in Messages, d \in Durations, r \in Randoms}
    ELSE {}

\* C18: retry(error) with an error, called when the time since try() has
\* reached maxRetryTime, returns false and schedules nothing; the history
\* is then exactly the one RetryError('Retry timeout'), mainError is that
\* error, and the promise of RetryPromise rejects with it.
C18_DeadlineLeavesOnlyRetryError ==
  \A run \in RetryRuns :
    (/\ controller.options.maxRetryTime # POSITIVE_INFINITY
     /\ now + run.duration - controller.startTime
          >= controller.options.maxRetryTime) =>
      /\ ~run.retried.returned
      /\ run.retried.scheduled = undefined
      /\ run.retried.timers.armed = {}
      /\ run.retried.controller.errors = <<RetryError>>
      /\ mainError(run.retried).read = RetryError
      /\ run.settled.session.promise = "rejected"
      /\ run.settled.session.value = RetryError

\* A call was retried once and then rejected with the RetryError, its
\* second failure coming at the deadline.
C18_Witness ==
  /\ controller.options.maxRetryTime = Whole(1)
  /\ Len(session.calls) = 2
  /\ controller.retryCount < controller.options.maxRetryCount
  /\ session.promise = "rejected"
  /\ session.value = RetryError

\* ------------------------------------------- RetryController, used directly

\* The options of the controllers driven directly: any retry limit, no
\* deadline, no getTimeout, the interval arithmetic left at 1, factor 2.
ControllerOptions ==
  [maxRetryCount : 1..MaxRetryCount,
   minTimeInterval : {Whole(1)},
   maxTimeInterval : {POSITIVE_INFINITY},
   maxRetryTime : {POSITIVE_INFINITY},
   incrementIntervalFactor : {Whole(2)},
   incrementIntervalRandomize : {FALSE},
   getTimeout : {"none"}]

\* new RetryController(options)
InitController ==
  /\ NoQueue
  /\ \E options \in ControllerOptions :
       /\ ~RetryController(options).thrown
       /\ controller = RetryController(options).controller
  /\ timers = NoTimers
  /\ now = 0
  /\ session = NoSession
  /\ other = NoOther
  /\ NoWrappers

canTry == controller.func = "noop"
canRetry == Len(controller.errors) < MaxErrors

try ==
  /\ canTry
  /\ RetryCommit(tryCall(World, "operation"))

retry(message, random) ==
  /\ canRetry
  /\ RetryCommit(retryCall(World,
                           Error(message, Len(controller.errors) + 1),
                           random))

getMainError == RetryCommit(mainError(World))

NextController ==
  \/ try
  \/ \E m \in Messages, r \in Randoms : retry(m, r)
  \/ getMainError
  \/ timerFires

SpecController == InitController /\ [][NextController]_vars

\* How often a message occurs in a history
Occurrences(errors, message) ==
  Cardinality({k \in 1..Len(errors) : errors[k].message = message})

\* The messages that occur most often in a history
MostFrequent(errors) ==
  {errors[k].message : k \in
     {k \in 1..Len(errors) :
        \A j \in 1..Len(errors) :
          Occurrences(errors, errors[j].message)
            <= Occurrences(errors, errors[k].message)}}

\* The error the history's dominant message was last recorded with: of the
\* most frequent messages, the one that reached its count last.
Dominant(errors) ==
  errors[CHOOSE k \in 1..Len(errors) :
           /\ errors[k].message \in MostFrequent(errors)
           /\ \A j \in (k + 1)..Len(errors) :
                errors[j].message \notin MostFrequent(errors)]

\* C19: mainError is null for the empty history; for any other history it
\* is an error whose message occurs most often, and of the messages tied
\* at that count the one whose count got there last.
C19_MainErrorIsLatestMostFrequent ==
  mainError(World).read =
    IF controller.errors = <<>> THEN Null ELSE Dominant(controller.errors)

\* For the histories none of whose messages names a property that plain
\* objects inherit, mainError is as described.
MainErrorOfPlainMessages ==
  (\A k \in 1..Len(controller.errors) :
     controller.errors[k].message \notin ObjectPrototypeKeys) =>
    C19_MainErrorIsLatestMostFrequent

\* ------------------------------------------------- RetryPromise: intervals

\* The options of the calls whose intervals are followed: the interval
\* arithmetic over whole and fractional minimum intervals, capped and
\* uncapped, with and without randomization and getTimeout.
BackoffOptions ==
  [maxRetryCount : 1..MaxRetryCount,
   minTimeInterval : {0, 1, Whole(1), Whole(1) + 1, Whole(2)},
   maxTimeInterval : {Whole(1), Whole(3), POSITIVE_INFINITY},
   maxRetryTime : {POSITIVE_INFINITY},
   incrementIntervalFactor : {Whole(1), Whole(2)},
   incrementIntervalRandomize : BOOLEAN,
   getTimeout : GetTimeouts]

InitBackoff ==
  /\ NoQueue
  /\ \E options \in BackoffOptions :
       /\ ~RetryController(options).thrown
       /\ controller = RetryController(options).controller
  /\ timers = NoTimers
  /\ now = 0
  /\ session = NoSession
  /\ other = NoOther
  /\ NoWrappers

\* The operation fails at once, always with one message.
NextBackoff ==
  \/ retryPromise
  \/ \E r \in Randoms : attemptFails("A", 0, r)
  \/ attemptFulfils(0)
  \/ timerFires

SpecBackoff == InitBackoff /\ [][NextBackoff]_vars

\* The whole number nearest to x units, halves going up
Nearest(x) ==
  CHOOSE k \in 0..(x + 1) :
    2 * Whole(k) - Denominator <= 2 * x /\ 2 * x < 2 * Whole(k) + Denominator

\* x, or the cap when the cap is finite and lower
Capped(x, cap) == IF cap # POSITIVE_INFINITY /\ cap < x THEN cap ELSE x

\* Every interval a failure of the attempt in flight can schedule lies
\* between the minimum and the maximum interval, when there is no
\* getTimeout and the minimum is a whole number from 1 up.
IntervalsWithinLimits ==
  (/\ controller.options.getTimeout = "none"
   /\ controller.options.minTimeInterval >= Whole(1)
   /\ controller.options.minTimeInterval % Denominator = 0) =>
    \A run \in RetryRuns :
      run.retried.returned =>
        /\ run.retried.scheduled >= controller.options.minTimeInterval
        /\ Capped(run.retried.scheduled, controller.options.maxTimeInterval)
             = run.retried.scheduled

\* C20 as stated: without randomization and getTimeout the interval
\* scheduled after the failure of attempt n is
\* min(max(minTimeInterval, 1) * incrementIntervalFactor^n, maxTimeInterval);
\* and every interval lies between minTimeInterval and maxTimeInterval when
\* minTimeInterval is a whole number from 1 up.
C20_IntervalIsMinimumTimesFactorPower ==
  /\ (/\ controller.options.getTimeout = "none"
      /\ ~controller.options.incrementIntervalRandomize) =>
       \A run \in RetryRuns :
         run.retried.returned =>
           run.retried.scheduled =
             Capped(Max(controller.options.minTimeInterval, Whole(1))
                      * (controller.options.incrementIntervalFactor
                           \div Denominator) ^ controller.retryCount,
                    controller.options.maxTimeInterval)
  /\ IntervalsWithinLimits

\* C20, amended: the interval is
\* min(round(max(minTimeInterval, 1)) * incrementIntervalFactor^n,
\* maxTimeInterval), the minimum interval being rounded to a whole number
\* before it is multiplied; the limits are as stated.
C20_IntervalIsRoundedMinimumTimesFactorPower ==
  /\ (/\ controller.options.getTimeout = "none"
      /\ ~controller.options.incrementIntervalRandomize) =>
       \A run \in RetryRuns :
         run.retried.returned =>
           run.retried.scheduled =
             Capped(Whole(Nearest(Max(controller.options.minTimeInterval,
                                      Whole(1))))
                      * (controller.options.incrementIntervalFactor
                           \div Denominator) ^ controller.retryCount,
                    controller.options.maxTimeInterval)
  /\ IntervalsWithinLimits

\* The second attempt has failed and the third is scheduled after the
\* maximum interval 3, which caps 2 * 2^1.
C20_Witness ==
  /\ controller.options.getTimeout = "none"
  /\ ~controller.options.incrementIntervalRandomize
  /\ controller.options.minTimeInterval = Whole(2)
  /\ controller.options.incrementIntervalFactor = Whole(2)
  /\ controller.options.maxTimeInterval = Whole(3)
  /\ controller.retryCount = 1
  /\ \E t \in timers.armed : t.due - now = Whole(3)

\* ------------------------------------- RetryController: stopping, resetting

MaxRetries == 3

\* retry(error) is followed while fewer than MaxRetries callbacks were
\* scheduled and fewer than MaxRetries errors are recorded.
canRetryAgain ==
  timers.created < MaxRetries /\ Len(controller.errors) < MaxRetries

retryAgain(message, random) ==
  /\ canRetryAgain
  /\ RetryCommit(retryCall(World,
                           Error(message, Len(controller.errors) + 1),
                           random))

retryNull == \E r \in Randoms : RetryCommit(retryCall(World, Null, r))

stop == RetryCommit(stopCall(World))

reset == RetryCommit(resetCall(World))

NextLifecycle ==
  \/ try
  \/ \E m \in Messages, r \in Randoms : retryAgain(m, r)
  \/ retryNull
  \/ stop
  \/ reset
  \/ getMainError
  \/ timerFires

SpecLifecycle == InitController /\ [][NextLifecycle]_vars

\* C21: stop() cancels the scheduled retry, which then never fires, empties
\* the history and clears the cached mainError, so that mainError is null;
\* it leaves retryCount as it was, and a second stop() changes nothing.
C21_StopCancelsAndClears ==
  LET stopped == stopCall(World)
  IN  /\ stopped.timers.armed = {}
      /\ stopped.controller.errors = <<>>
      /\ stopped.controller.cachedMainError = Null
      /\ mainError(stopped).read = Null
      /\ stopped.controller.retryCount = controller.retryCount
      /\ stopped.session = session
      /\ stopCall(stopped) = stopped

\* The one retry scheduled so far was cancelled before it fired, and the
\* error recorded with it is gone.
C21_Witness ==
  /\ timers.created = 1
  /\ timers.armed = {}
  /\ controller.retryCount = 0
  /\ controller.errors = <<>>
  /\ session.calls = <<0>>

\* C22: retry(null) returns false and cancels the scheduled retry; it does
\* not call onError and leaves the history and retryCount as they were;
\* with no callback left, the operation is not invoked again until try()
\* or retry(error) is called.
C22_RetryNullOnlyCancels ==
  \A r \in Randoms :
    LET done == retryCall(World, Null, r)
    IN  /\ ~done.returned
        /\ done.scheduled = undefined
        /\ done.timers.armed = {}
        /\ done.onError = <<>>
        /\ done.controller.errors = controller.errors
        /\ done.controller.retryCount = controller.retryCount
        /\ done.session = session

\* The one retry scheduled so far was cancelled before it fired, and the
\* error recorded with it is still in the history.
C22_Witness ==
  /\ timers.created = 1
  /\ timers.armed = {}
  /\ controller.retryCount = 0
  /\ Len(controller.errors) = 1
  /\ session.calls = <<0>>

\* ----------------------------------------- RetryController: the constructor

\* Options as a caller may give them, merged over the defaults: valid and
\* invalid values of every number that is validated.
GivenOptions ==
  [maxRetryCount : {-1, 0, 1},
   minTimeInterval : {-Whole(1), 0, Whole(1), Whole(2)},
   maxTimeInterval : {-Whole(1), Whole(1), POSITIVE_INFINITY},
   maxRetryTime : {-Whole(1), POSITIVE_INFINITY},
   incrementIntervalFactor : {0, 1, Whole(1), Whole(2)},
   incrementIntervalRandomize : {FALSE},
   getTimeout : {"none"}]

\* RetryPromise(func, options) has returned the wrapped function; the
\* options are not looked at before it is called.
InitGiven ==
  /\ NoQueue
  /\ \E options \in GivenOptions : controller = NewController(options)
  /\ timers = NoTimers
  /\ now = 0
  /\ session = NoSession
  /\ other = NoOther
  /\ NoWrappers

\* One call of the wrapped function: new RetryController(options) throws
\* out of the call, or the call goes on with the controller constructed.
retryPromiseCallGiven(w) ==
  LET made == RetryController(w.controller.options)
  IN  IF made.thrown
        THEN [w EXCEPT !.session.state = "thrown"]
        ELSE tryCall([w EXCEPT !.controller = made.controller,
                               !.session = [NoSession EXCEPT
                                              !.state = "called",
                                              !.promise = "pending"]],
                     "operation")

retryPromiseGiven ==
  /\ canCall
  /\ RetryCommit(retryPromiseCallGiven(World))

NextGiven ==
  \/ retryPromiseGiven
  \/ \E r \in Randoms : attemptFails("A", 0, r)
  \/ attemptFulfils(0)
  \/ timerFires

SpecGiven == InitGiven /\ [][NextGiven]_vars

\* C23: the constructor throws exactly when minTimeInterval < 0,
\* maxTimeInterval < 0, maxRetryTime < 0, incrementIntervalFactor < 1 or
\* maxRetryCount <= 0; minTimeInterval > maxTimeInterval alone is no error
\* and raises maxTimeInterval to minTimeInterval.
C23_ThrowsExactlyOnInvalidOptions ==
  session.state = "idle" =>
    LET options == controller.options
        made == RetryController(options)
        invalid == \/ options.minTimeInterval < 0
                   \/ options.maxTimeInterval < 0
                   \/ options.maxRetryTime < 0
                   \/ options.incrementIntervalFactor < Whole(1)
                   \/ options.maxRetryCount <= 0
    IN  /\ made.thrown <=> invalid
        /\ (~invalid /\ options.maxTimeInterval # POSITIVE_INFINITY
              /\ options.minTimeInterval > options.maxTimeInterval) =>
             made.controller.options.maxTimeInterval
               = options.minTimeInterval

\* The constructor throws exactly when minTimeInterval < 0,
\* maxRetryTime < 0, incrementIntervalFactor < 1 or maxRetryCount <= 0: a
\* negative maxTimeInterval is raised to minTimeInterval before it is
\* looked at.
ThrowsOnInvalidOptionsButMaximum ==
  session.state = "idle" =>
    LET options == controller.options
    IN  RetryController(options).thrown <=>
          \/ options.minTimeInterval < 0
          \/ options.maxRetryTime < 0
          \/ options.incrementIntervalFactor < Whole(1)
          \/ options.maxRetryCount <= 0

\* ------------------------------------------- claims: RetryPromise, one call

\* A call is refused further retries, short of the deadline, only after
\* the operation has failed with every count up to the retry limit: an
\* operation that succeeds at some count up to the limit gets there.
RejectedOnlyWhenExhausted ==
  (session.promise = "rejected" /\ session.value # RetryError) =>
    Len(session.calls) = controller.options.maxRetryCount + 1

\* The call that fulfilled after k failures: k + 1 invocations, with the
\* counts 0..k, none in flight or scheduled any more; the value of the last
\* invocation; k calls of onError, the j-th with the error of the j-th
\* invocation and the count j.
FulfilledAfterFailures ==
  session.promise = "fulfilled" =>
    /\ session.value = Result(Len(session.calls))
    /\ Len(session.calls) = Len(session.reported) + 1
    /\ session.inFlight = 0
    /\ timers.armed = {}
    /\ \A j \in 1..Len(session.calls) : session.calls[j] = j - 1
    /\ \A j \in 1..Len(session.reported) :
         /\ session.reported[j].error.name = "Error"
         /\ session.reported[j].error.serial = j
         /\ session.reported[j].currentRetryCount = j - 1

\* A failure that is retried calls onError once, with the interval that is
\* handed to setTimeout.
ReportsScheduledInterval ==
  \A run \in RetryRuns :
    run.retried.returned =>
      /\ Len(run.retried.onError) = 1
      /\ run.retried.onError[1].nextTimeInterval = run.retried.scheduled
      /\ \E t \in run.retried.timers.armed :
           /\ t.id = run.retried.controller.timeoutId
           /\ t.due = run.retried.now + run.retried.scheduled
      /\ run.settled.session.reported
           = session.reported \o run.retried.onError

\* C24 as stated: an operation that fails k <= maxRetryCount times, the
\* deadline not reached, and then succeeds is invoked exactly k + 1 times;
\* the promise fulfils with the value of the successful attempt; onError
\* is called exactly k times, the j-th call with the j-th error, the count
\* j and the interval scheduled.
C24_FulfilsAfterFailuresWithinLimit ==
  /\ RejectedOnlyWhenExhausted
  /\ FulfilledAfterFailures
  /\ ReportsScheduledInterval

\* C24, amended: the same for the calls whose getTimeout, if there is one,
\* returns an interval for every count below maxRetryCount.
C24_FulfilsAfterFailuresWithIntervals ==
  /\ IntervalsGiven => RejectedOnlyWhenExhausted
  /\ FulfilledAfterFailures
  /\ ReportsScheduledInterval

\* A call with the largest limit and no getTimeout has fulfilled at its
\* last attempt.
C24_Witness ==
  /\ controller.options.getTimeout = "none"
  /\ controller.options.maxRetryCount = MaxRetryCount
  /\ session.promise = "fulfilled"
  /\ Len(session.calls) = MaxRetryCount + 1
  /\ Len(session.reported) = MaxRetryCount

\* The failures of the attempt in flight that end the call short of the
\* deadline: retry() has refused, and has not recorded a RetryError.
ExhaustedRuns ==
  {run \in RetryRuns :
     /\ ~run.retried.returned
     /\ run.retried.controller.errors[Len(run.retried.controller.errors)]
          # RetryError}

\* The call that ends exhausted rejects, once, with the dominant error of
\* the history, which holds the error of every invocation.
RejectsWithDominantError(run) ==
  /\ Len(run.retried.controller.errors) = Len(session.calls)
  /\ \A j \in 1..Len(session.calls) :
       run.retried.controller.errors[j].serial = j
  /\ session.promise = "pending"
  /\ run.settled.session.promise = "rejected"
  /\ run.settled.session.value = Dominant(run.retried.controller.errors)
  /\ run.settled.session.inFlight = 0
  /\ run.settled.timers.armed = {}

\* C25: when the retries of a call are exhausted, the promise rejects
\* exactly once with mainError over all errors of the call: the error of
\* the most frequent message, the latest on a tie.
C25_RejectsWithMainError ==
  \A run \in ExhaustedRuns : RejectsWithDominantError(run)

\* The same for the calls none of whose errors has a message that names a
\* property plain objects inherit.
RejectsWithMainErrorOfPlainMessages ==
  \A run \in ExhaustedRuns :
    (\A k \in 1..Len(run.retried.controller.errors) :
       run.retried.controller.errors[k].message \notin ObjectPrototypeKeys)
      => RejectsWithDominantError(run)

\* ----------------------------------------------- RetryPromise: two calls

\* The options of the function called twice: any retry limit, no deadline,
\* no getTimeout.
TwoCallOptions ==
  [maxRetryCount : 1..MaxRetryCount,
   minTimeInterval : {Whole(1)},
   maxTimeInterval : {POSITIVE_INFINITY},
   maxRetryTime : {POSITIVE_INFINITY},
   incrementIntervalFactor : {Whole(2)},
   incrementIntervalRandomize : {FALSE},
   getTimeout : {"none"}]

\* RetryPromise(func, options) has returned the wrapped function; both
\* calls are calls of it.
InitTwoCalls ==
  /\ NoQueue
  /\ \E options \in TwoCallOptions :
       /\ ~RetryController(options).thrown
       /\ controller = RetryController(options).controller
       /\ other = [controller |-> RetryController(options).controller,
                   session |-> NoSession]
  /\ timers = NoTimers
  /\ now = 0
  /\ session = NoSession
  /\ NoWrappers

OtherCommit(w) ==
  /\ other' = [controller |-> w.controller, session |-> w.session]
  /\ timers' = w.timers
  /\ now' = w.now
  /\ UNCHANGED <<controller, session>>
  /\ UNCHANGED queueVars
  /\ UNCHANGED wrapperVars

\* The callbacks armed by one of the two calls
Owned(table, call) == {t \in table.armed : t.owner = call}

\* A call that can act no more: settled, nothing in flight or scheduled
Finished(s, call) ==
  /\ s.promise \in {"fulfilled", "rejected"}
  /\ s.inFlight = 0
  /\ Owned(timers, call) = {}

\* The function is called again when the call before has finished; calls
\* are followed while fewer than MaxRetries callbacks were scheduled.
canCallAgain(s, call) ==
  /\ s.state = "idle" \/ Finished(s, call)
  /\ timers.created < MaxRetries

retryPromiseAgain ==
  /\ canCallAgain(session, 1)
  /\ RetryCommit(retryPromiseCall(World))

retryPromiseOther ==
  /\ canCallAgain(other.session, 2)
  /\ OtherCommit(retryPromiseCall(OtherWorld))

attemptFailsOther(message, duration, random) ==
  /\ other.session.inFlight > 0
  /\ OtherCommit(attemptFailed(OtherWorld,
                               Error(message, Len(other.session.calls)),
                               duration, random))

attemptFulfilsOther(duration) ==
  /\ other.session.inFlight > 0
  /\ OtherCommit(attemptFulfilled(OtherWorld, duration))

timerFiresOther ==
  \E t \in timers.armed : t.owner = 2 /\ OtherCommit(timerFired(OtherWorld, t))

NextTwoCalls ==
  \/ retryPromiseAgain
  \/ \E r \in Randoms : attemptFails("A", 0, r)
  \/ attemptFulfils(0)
  \/ timerFires
  \/ retryPromiseOther
  \/ \E r \in Randoms : attemptFailsOther("A", 0, r)
  \/ attemptFulfilsOther(0)
  \/ timerFiresOther

SpecTwoCalls == InitTwoCalls /\ [][NextTwoCalls]_vars

\* A call whose first attempt is running has the count 0 and no history.
StartsAfresh(c, s) ==
  (Len(s.calls) = 1 /\ s.inFlight = 1) =>
    /\ s.calls = <<0>>
    /\ s.reported = <<>>
    /\ c.retryCount = 0
    /\ c.errors = <<>>

\* C26: every call of the wrapped function is a retry session of its own.
\* A step of one call leaves the other call's controller, session and
\* scheduled callbacks as they are, and a call starts with the count 0 and
\* an empty history whatever the calls before and beside it did.
C26_CallsAreIndependent ==
  [][/\ \/ other' = other /\ Owned(timers', 2) = Owned(timers, 2)
        \/ /\ controller' = controller
           /\ session' = session
           /\ Owned(timers', 1) = Owned(timers, 1)
     /\ StartsAfresh(controller', session')
     /\ StartsAfresh(other.controller', other.session')]_vars

\* The first call has failed and waits for its retry; the second call,
\* made after a call in its place had retried, runs its first attempt.
C26_Witness ==
  /\ Len(controller.errors) = 1
  /\ Owned(timers, 1) # {}
  /\ timers.created >= 2
  /\ other.session.calls = <<0>>
  /\ other.session.inFlight = 1
  /\ other.controller.errors = <<>>

\* ------------------------------------------------------- CancelablePromise
\* CancelablePromise (src/src/cancelable-promise/index.ts).  The executor
\* runs inside the constructor and may go on acting in later turns through
\* the resolve, reject and onCancel it was given; cancel() and
\* addCancelHandler() need the constructed object.
MaxHandlers == 2

\* A cancel handler either returns or throws.
Handlers == {"returns", "throws"}
\* The reason cancel() is called with: '' stands for the falsy reasons, an
\* empty string and a reason left out.
Reasons == {"", "R"}
Values == {Result(1)}
Failures == {Error("A", 1)}

CancelError(reason) ==
  [name |-> "CancelError",
   message |-> IF reason = "" THEN "Promise was canceled" ELSE reason,
   serial |-> 0]

\* A native promise and its resolve and reject functions: the first call
\* settles it, later calls do nothing.
NewPromise == [status |-> "pending", value |-> Null]
resolvePromise(promise, value) ==
  IF promise.status = "pending"
    THEN [status |-> "fulfilled", value |-> value]
    ELSE promise
rejectPromise(promise, reason) ==
  IF promise.status = "pending"
    THEN [status |-> "rejected", value |-> reason]
    ELSE promise

\* The fields as the class initialises them, the executor running; invoked
\* lists the cancel handlers called so far, by position, and thrown is what
\* the last call threw.
NewCancelable ==
  [phase |-> "executing", state |-> "pending", rejectOnCancel |-> TRUE,
   cancelHandlers |-> <<>>, promise |-> NewPromise, invoked |-> <<>>,
   thrown |-> Null]

setState(c, state) ==
  IF c.state = "pending" THEN [c EXCEPT !.state = state] ELSE c

isCanceled(c) == c.state = "canceled"

\* onResolve, the resolve handed to the executor
onResolveCall(c, value) ==
  IF c.state # "canceled" \/ ~c.rejectOnCancel
    THEN setState([c EXCEPT !.promise = resolvePromise(@, value),
                            !.thrown = Null], "resolved")
    ELSE [c EXCEPT !.thrown = Null]

\* onReject, the reject handed to the executor
onRejectCall(c, error) ==
  IF c.state # "canceled" \/ ~c.rejectOnCancel
    THEN setState([c EXCEPT !.promise = rejectPromise(@, error),
                            !.thrown = Null], "rejected")
    ELSE [c EXCEPT !.thrown = Null]

\* onCancel.cancelHandler(handler)
cancelHandlerCall(c, handler) ==
  IF c.state # "pending"
    THEN [c EXCEPT !.thrown = Error("onCancel handler attached late", 0)]
    ELSE [c EXCEPT !.cancelHandlers = Append(@, handler), !.thrown = Null]

\* onCancel.shouldReject = val
shouldRejectSet(c, val) == [c EXCEPT !.rejectOnCancel = val, !.thrown = Null]

\* addCancelHandler(handler)
addCancelHandlerCall(c, handler) ==
  IF c.state # "pending"
    THEN [c EXCEPT
            !.thrown = Error("addCancelHandler called late", 0)]
    ELSE [c EXCEPT !.cancelHandlers = Append(@, handler), !.thrown = Null]

\* The loop of cancel() over #cancelHandlers from position i on: a handler
\* that throws ends the loop and the call.
RECURSIVE callHandlers(_, _)
callHandlers(c, i) ==
  IF i > Len(c.cancelHandlers)
    THEN c
    ELSE LET called == [c EXCEPT !.invoked = Append(@, i)]
         IN  IF c.cancelHandlers[i] = "throws"
               THEN [called EXCEPT !.thrown = Error("handler", i)]
               ELSE callHandlers(called, i + 1)

\* cancel(reason)
cancelCall(c, reason) ==
  LET canceled == setState([c EXCEPT !.thrown = Null], "canceled")
      rejected ==
        IF c.rejectOnCancel
          THEN [canceled EXCEPT
                  !.promise = rejectPromise(@, CancelError(reason))]
          ELSE canceled
  IN  IF c.state # "pending"
        THEN [c EXCEPT !.thrown = Null]
        ELSE callHandlers(rejected, 1)

\* The executor throws before it returns: the native promise catches the
\* error and rejects with it.
executorThrew(c, error) ==
  [c EXCEPT !.phase = "constructed",
            !.promise = rejectPromise(@, error), !.thrown = Null]

executorReturned(c) == [c EXCEPT !.phase = "constructed", !.thrown = Null]

NoRetry ==
  /\ controller = Null
  /\ timers = NoTimers
  /\ now = 0
  /\ session = NoSession
  /\ other = NoOther

\* new CancelablePromise(executor) has called the executor.
InitCancelable ==
  /\ NoQueue
  /\ NoRetry
  /\ cancelable = NewCancelable
  /\ timed = Null
  /\ debounced = Null

CancelableCommit(c) ==
  /\ cancelable' = c
  /\ UNCHANGED <<timed, debounced>>
  /\ UNCHANGED queueVars
  /\ UNCHANGED retryVars

canAttach == Len(cancelable.cancelHandlers) < MaxHandlers

onResolve(value) == CancelableCommit(onResolveCall(cancelable, value))

onReject(error) == CancelableCommit(onRejectCall(cancelable, error))

cancelHandler(handler) ==
  /\ canAttach
  /\ CancelableCommit(cancelHandlerCall(cancelable, handler))

shouldReject(val) == CancelableCommit(shouldRejectSet(cancelable, val))

executorThrows(error) ==
  /\ cancelable.phase = "executing"
  /\ CancelableCommit(executorThrew(cancelable, error))

executorReturns ==
  /\ cancelable.phase = "executing"
  /\ CancelableCommit(executorReturned(cancelable))

addCancelHandler(handler) ==
  /\ cancelable.phase = "constructed"
  /\ canAttach
  /\ CancelableCommit(addCancelHandlerCall(cancelable, handler))

cancel(reason) ==
  /\ cancelable.phase = "constructed"
  /\ CancelableCommit(cancelCall(cancelable, reason))

NextCancelable ==
  \/ \E value \in Values : onResolve(value)
  \/ \E error \in Failures : onReject(error)
  \/ \E handler \in Handlers : cancelHandler(handler)
  \/ \E val \in BOOLEAN : shouldReject(val)
  \/ \E error \in Failures : executorThrows(error)
  \/ executorReturns
  \/ \E handler \in Handlers : addCancelHandler(handler)
  \/ \E reason \in Reasons : cancel(reason)

SpecCancelable == InitCancelable /\ [][NextCancelable]_vars

CancelableTypeOK ==
  /\ cancelable.phase \in {"executing", "constructed"}
  /\ cancelable.state \in {"pending", "canceled", "resolved", "rejected"}
  /\ cancelable.rejectOnCancel \in BOOLEAN
  /\ Len(cancelable.cancelHandlers) <= MaxHandlers
  /\ cancelable.promise.status \in {"pending", "fulfilled", "rejected"}

\* What a call left behind, apart from what it threw
Left(c) == [c EXCEPT !.thrown = Null]

\* The positions of the handlers registered on c, in registration order
Registered(c) == [i \in 1..Len(c.cancelHandlers) |-> i]

\* Every later resolve or reject of the executor leaves c as it is, whatever
\* shouldReject is set to in between.
LaterSettlesIgnored(c) ==
  \A val \in BOOLEAN :
    /\ \A value \in Values :
         Left(onResolveCall(shouldRejectSet(c, val), value))
           = Left(shouldRejectSet(c, val))
    /\ \A error \in Failures :
         Left(onRejectCall(shouldRejectSet(c, val), error))
           = Left(shouldRejectSet(c, val))

\* cancel(reason) on c, taken to be pending with shouldReject true, does
\* what C27 says.
CancelsAndRejects(c, reason) ==
  LET after == cancelCall(c, reason)
  IN  /\ isCanceled(after)
      /\ after.promise.status = "rejected"
      /\ after.promise.value.name = "CancelError"
      /\ reason # "" => after.promise.value.message = reason
      /\ after.invoked = c.invoked \o Registered(c)
      /\ LaterSettlesIgnored(after)

\* C27: cancel() on a pending CancelablePromise whose shouldReject is true
\* makes isCanceled true, rejects the promise with a CancelError carrying
\* the reason and calls every registered cancel handler in registration
\* order; after that the executor's resolve and reject change nothing; and
\* cancel() on a promise that is resolved, rejected or canceled changes
\* nothing.
C27_CancelRejectsAndRunsHandlers ==
  cancelable.phase = "constructed" =>
    \A reason \in Reasons :
      /\ (cancelable.state = "pending" /\ cancelable.rejectOnCancel) =>
           CancelsAndRejects(cancelable, reason)
      /\ (cancelable.state # "pending"
            \/ cancelable.promise.status # "pending") =>
           Left(cancelCall(cancelable, reason)) = Left(cancelable)

\* No handler but the last registered one throws.
OnlyLastMayThrow(c) ==
  \A i \in 1..Len(c.cancelHandlers) - 1 : c.cancelHandlers[i] = "returns"

\* What holds of cancel(): the same, for a promise the executor has not
\* rejected by throwing and handlers of which only the last may throw.
CancelOfUnsettledRejectsAndRunsHandlers ==
  cancelable.phase = "constructed" =>
    \A reason \in Reasons :
      /\ (/\ cancelable.state = "pending"
          /\ cancelable.promise.status = "pending"
          /\ cancelable.rejectOnCancel
          /\ OnlyLastMayThrow(cancelable)) =>
           CancelsAndRejects(cancelable, reason)
      /\ cancelable.state # "pending" =>
           Left(cancelCall(cancelable, reason)) = Left(cancelable)

\* Whatever is called on c, isCanceled stays true.
StaysCanceled(c) ==
  /\ \A value \in Values : isCanceled(onResolveCall(c, value))
  /\ \A error \in Failures : isCanceled(onRejectCall(c, error))
  /\ \A handler \in Handlers :
       /\ isCanceled(cancelHandlerCall(c, handler))
       /\ isCanceled(addCancelHandlerCall(c, handler))
  /\ \A val \in BOOLEAN : isCanceled(shouldRejectSet(c, val))
  /\ \A reason \in Reasons : isCanceled(cancelCall(c, reason))

\* The executor's resolve or reject settles the promise of c.
SettlesWithExecutor(c) ==
  /\ \A value \in Values :
       onResolveCall(c, value).promise
         = [status |-> "fulfilled", value |-> value]
  /\ \A error \in Failures :
       onRejectCall(c, error).promise
         = [status |-> "rejected", value |-> error]

\* C28: with shouldReject false, cancel() on a pending CancelablePromise
\* leaves the promise as it is, calls the cancel handlers and makes
\* isCanceled true; isCanceled stays true; and a promise canceled without
\* being rejected is settled by the executor's later resolve or reject.
C28_CancelWithoutRejectStillSettles ==
  /\ (/\ cancelable.phase = "constructed"
      /\ cancelable.state = "pending"
      /\ ~cancelable.rejectOnCancel) =>
       \A reason \in Reasons :
         LET after == cancelCall(cancelable, reason)
         IN  /\ after.promise = cancelable.promise
             /\ after.invoked = cancelable.invoked \o Registered(cancelable)
             /\ isCanceled(after)
  /\ isCanceled(cancelable) => StaysCanceled(cancelable)
  /\ (isCanceled(cancelable) /\ cancelable.promise.status = "pending") =>
       SettlesWithExecutor(cancelable)

\* What holds of cancel() with shouldReject false: the same, for handlers of
\* which only the last may throw and an executor that resolves or rejects
\* with shouldReject still false.
CancelWithoutRejectSettlesWhileFlagIsFalse ==
  /\ (/\ cancelable.phase = "constructed"
      /\ cancelable.state = "pending"
      /\ ~cancelable.rejectOnCancel
      /\ OnlyLastMayThrow(cancelable)) =>
       \A reason \in Reasons :
         LET after == cancelCall(cancelable, reason)
         IN  /\ after.promise = cancelable.promise
             /\ after.invoked = cancelable.invoked \o Registered(cancelable)
             /\ isCanceled(after)
  /\ isCanceled(cancelable) => StaysCanceled(cancelable)
  /\ (/\ isCanceled(cancelable)
      /\ cancelable.promise.status = "pending"
      /\ ~cancelable.rejectOnCancel) =>
       SettlesWithExecutor(cancelable)

\* ---------------------------------------------------------- TimeoutPromise
\* TimeoutPromise (src/src/retry-promise/index.ts, from line 1124), called
\* with an executor and options.  The executor runs inside the constructor,
\* which arms the timer after it has returned.

\* options.milliseconds, in units of 1/Denominator: a negative number, zero,
\* a number that is not whole, and whole numbers.
Milliseconds == {-Whole(1), 0, 1, Whole(1), Whole(2)}
\* options.message, '' for a message left out
TimeoutMessages == {"", "M"}
\* options.fallback: left out, or a function returning FallbackValue
Fallbacks == {"none", "returns"}
FallbackValue == Result(0)
TimeoutValues == {Result(1), Result(2)}

TimeoutPromiseOptions ==
  [milliseconds : Milliseconds, message : TimeoutMessages,
   fallback : Fallbacks]

TimeoutError(message) ==
  [name |-> "TimeoutError",
   message |-> IF message = "" THEN "Promise timeout" ELSE message,
   serial |-> 0]

TypeError(message) == [name |-> "TypeError", message |-> message, serial |-> 0]

\* The constructor up to the call of the executor.  With milliseconds that
\* are not a positive integer the signal is aborted at once, the promise
\* rejects with the TypeError and the executor is never called.
TimeoutPromise(options) ==
  LET invalid == \/ options.milliseconds = 0
                 \/ ~isInteger(options.milliseconds)
                 \/ options.milliseconds < 0
      reason == TypeError("The milliseconds must be a positive integer.")
  IN  [options |-> options,
       aborted |-> invalid,
       reason |-> IF invalid THEN reason ELSE Null,
       promise |-> IF invalid THEN rejectPromise(NewPromise, reason)
                              ELSE NewPromise,
       listening |-> ~invalid,
       executor |-> IF invalid THEN "never" ELSE "running",
       timeoutId |-> undefined,
       armed |-> FALSE,
       fallbackCalls |-> 0]

\* finalize: the 'abort' listener is removed.
finalize(t) == [t EXCEPT !.listening = FALSE]

\* #abortController.abort(reason), with the listener abortAndFinalize
signalAbort(t, reason) ==
  LET aborted == [t EXCEPT !.aborted = TRUE, !.reason = reason]
  IN  IF t.aborted
        THEN t
        ELSE IF t.listening
               THEN finalize([aborted EXCEPT
                                !.promise = rejectPromise(@, aborted.reason)])
               ELSE aborted

\* onResolve of the TimeoutPromise constructor
timeoutOnResolve(t, value) ==
  finalize([t EXCEPT !.promise = resolvePromise(@, value)])

\* onReject of the TimeoutPromise constructor
timeoutOnReject(t, error) ==
  finalize([t EXCEPT !.promise = rejectPromise(@, error)])

\* The executor has returned: setTimeout arms the timer.
timeoutExecutorReturned(t) ==
  [t EXCEPT !.executor = "returned", !.timeoutId = 1, !.armed = TRUE]

\* The executor throws: the native promise rejects with the error, and the
\* constructor's setTimeout is not reached.
timeoutExecutorThrew(t, error) ==
  [t EXCEPT !.executor = "threw", !.promise = rejectPromise(@, error)]

\* The callback handed to setTimeout
timerCallback(t) ==
  LET fired == [t EXCEPT !.armed = FALSE]
  IN  IF t.options.fallback # "none"
        THEN timeoutOnResolve([fired EXCEPT !.fallbackCalls = @ + 1],
                              FallbackValue)
        ELSE signalAbort(fired, TimeoutError(t.options.message))

timeoutClearCall_KeepsTimer(t) == [t EXCEPT !.timeoutId = undefined]

\* clear()
timeoutClearCall(t) == [t EXCEPT !.armed = FALSE, !.timeoutId = undefined]

InitTimeout ==
  /\ NoQueue
  /\ NoRetry
  /\ cancelable = Null
  /\ \E options \in TimeoutPromiseOptions : timed = TimeoutPromise(options)
  /\ debounced = Null

TimeoutCommit(t) ==
  /\ timed' = t
  /\ UNCHANGED <<cancelable, debounced>>
  /\ UNCHANGED queueVars
  /\ UNCHANGED retryVars

\* The executor has been given onResolve and onReject.
hasExecutor == timed.executor # "never"
\* new TimeoutPromise() has returned.
isConstructed == timed.executor # "running"

timeoutResolves(value) ==
  /\ hasExecutor
  /\ TimeoutCommit(timeoutOnResolve(timed, value))

timeoutRejects(error) ==
  /\ hasExecutor
  /\ TimeoutCommit(timeoutOnReject(timed, error))

timeoutExecutorReturns ==
  /\ timed.executor = "running"
  /\ TimeoutCommit(timeoutExecutorReturned(timed))

timeoutExecutorThrows(error) ==
  /\ timed.executor = "running"
  /\ TimeoutCommit(timeoutExecutorThrew(timed, error))

timeoutElapses ==
  /\ timed.armed
  /\ TimeoutCommit(timerCallback(timed))

timeoutClear ==
  /\ isConstructed
  /\ TimeoutCommit(timeoutClearCall(timed))

NextTimeout ==
  \/ \E value \in TimeoutValues : timeoutResolves(value)
  \/ \E error \in Failures : timeoutRejects(error)
  \/ timeoutExecutorReturns
  \/ \E error \in Failures : timeoutExecutorThrows(error)
  \/ timeoutElapses
  \/ timeoutClear

SpecTimeout == InitTimeout /\ [][NextTimeout]_vars

TimeoutTypeOK ==
  /\ timed.options \in TimeoutPromiseOptions
  /\ timed.aborted \in BOOLEAN
  /\ timed.listening \in BOOLEAN
  /\ timed.armed \in BOOLEAN
  /\ timed.executor \in {"never", "running", "returned", "threw"}
  /\ timed.promise.status \in {"pending", "fulfilled", "rejected"}
  /\ timed.fallbackCalls \in 0..1
  /\ timed.armed => timed.executor = "returned"

\* Every call leaves the promise of t as it is.
KeepsOutcome(t) ==
  /\ \A value \in TimeoutValues : timeoutOnResolve(t, value).promise = t.promise
  /\ \A error \in Failures : timeoutOnReject(t, error).promise = t.promise
  /\ t.armed => timerCallback(t).promise = t.promise
  /\ timeoutClearCall(t).promise = t.promise

\* The executor settles the promise of t, and nothing changes it after.
TakesExecutorOutcome(t) ==
  /\ \A value \in TimeoutValues :
       LET after == timeoutOnResolve(t, value)
       IN  /\ after.promise = [status |-> "fulfilled", value |-> value]
           /\ KeepsOutcome(after)
  /\ \A error \in Failures :
       LET after == timeoutOnReject(t, error)
       IN  /\ after.promise = [status |-> "rejected", value |-> error]
           /\ KeepsOutcome(after)

\* The timer settles the promise of t, and nothing changes it after.
TakesTimerOutcome(t) ==
  LET after == timerCallback(t)
  IN  /\ t.options.fallback = "none" =>
           /\ after.promise.status = "rejected"
           /\ after.promise.value.name = "TimeoutError"
           /\ after.promise.value.message
                = IF t.options.message # "" THEN t.options.message
                                            ELSE "Promise timeout"
      /\ t.options.fallback # "none" =>
           /\ after.promise = [status |-> "fulfilled", value |-> FallbackValue]
           /\ after.fallbackCalls = 1
      /\ KeepsOutcome(after)

\* After clear() the timer is not armed and no call arms it, and the
\* executor still settles a pending promise.
OnlyExecutorAfterClear(t) ==
  LET after == timeoutClearCall(t)
  IN  /\ ~after.armed
      /\ \A value \in TimeoutValues : ~timeoutOnResolve(after, value).armed
      /\ \A error \in Failures : ~timeoutOnReject(after, error).armed
      /\ ~timeoutClearCall(after).armed
      /\ after.promise = t.promise
      /\ after.promise.status = "pending" => TakesExecutorOutcome(after)

MaxCalls == 3

\* The argument of a call of the debounced function
Arguments == {1, 2}
\* options.milliseconds, in units of 1/Denominator
DebounceMilliseconds == {-Whole(1), 0, 1, Whole(1)}

\* What one invocation of func does: it throws, or it returns a value, or
\* it returns a promise, which is pending or settled.
Throws(error) == [kind |-> "throws", error |-> error]
Returns(promise) == [kind |-> "returns", promise |-> promise]
Fulfilled(value) == [status |-> "fulfilled", value |-> value]
Rejected(error) == [status |-> "rejected", value |-> error]
Settlements(args) ==
  {Fulfilled(Result(args))} \cup {Rejected(error) : error \in Failures}
FuncOutcomes(args) ==
  {Throws(error) : error \in Failures}
    \cup {Returns(promise) : promise \in {NewPromise} \cup Settlements(args)}

\* DebouncePromise(func, options): throws for milliseconds that are not a
\* whole number or are negative, and returns the debounced function
\* otherwise.  promises holds, per call, whether its resolve is still
\* waiting in resolveList or which result it was called with; results
\* holds Promise.resolve(func(...)) of every invocation of func; uncaught
\* holds the errors that left the timer callback.
DebouncePromise(options) ==
  [thrown |-> ~isInteger(options.milliseconds) \/ options.milliseconds < 0,
   debounced |-> [milliseconds |-> options.milliseconds, timeoutId |-> 0,
                  args |-> 0, created |-> 0, resolveList |-> <<>>,
                  promises |-> <<>>, results |-> <<>>, uncaught |-> <<>>]]

\* The promise returned by call i
promiseOf(d, i) ==
  IF d.promises[i] = 0 THEN NewPromise ELSE d.results[d.promises[i]]

\* One call of the debounced function: the armed timer is replaced by one
\* holding the arguments of this call, and the call's resolve is pushed.
debouncedCall(d, args) ==
  [d EXCEPT !.timeoutId = d.created + 1,
            !.created = @ + 1,
            !.args = args,
            !.promises = Append(@, 0),
            !.resolveList = Append(@, Len(d.promises) + 1)]

\* The callback handed to setTimeout: func is invoked with the arguments
\* of the latest call; when it throws, the error leaves the callback
\* before the loop over resolveList; otherwise every resolve in
\* resolveList is called with the result and the list is emptied.
debounceTimeout(d, outcome) ==
  LET k == Len(d.results) + 1
      waiting == {d.resolveList[j] : j \in 1..Len(d.resolveList)}
  IN  IF outcome.kind = "throws"
        THEN [d EXCEPT !.timeoutId = 0,
                       !.uncaught = Append(@, outcome.error)]
        ELSE [d EXCEPT !.timeoutId = 0,
                       !.results = Append(@, outcome.promise),
                       !.promises = [i \in DOMAIN @ |->
                                       IF i \in waiting THEN k ELSE @[i]],
                       !.resolveList = <<>>]

\* The promise returned by invocation k of func settles.
resultSettled(d, k, promise) ==
  IF d.results[k].status = "pending"
    THEN [d EXCEPT !.results[k] = promise]
    ELSE d

InitDebounce ==
  /\ NoQueue
  /\ NoRetry
  /\ cancelable = Null
  /\ timed = Null
  /\ \E milliseconds \in DebounceMilliseconds :
       /\ ~DebouncePromise([milliseconds |-> milliseconds]).thrown
       /\ debounced = DebouncePromise([milliseconds |-> milliseconds]).debounced

DebounceCommit(d) ==
  /\ debounced' = d
  /\ UNCHANGED <<cancelable, timed>>
  /\ UNCHANGED queueVars
  /\ UNCHANGED retryVars

debouncedCalls(args) ==
  /\ Len(debounced.promises) < MaxCalls
  /\ DebounceCommit(debouncedCall(debounced, args))

debounceElapses(outcome) ==
  /\ debounced.timeoutId # 0
  /\ DebounceCommit(debounceTimeout(debounced, outcome))

resultSettles(k, promise) ==
  /\ k \in DOMAIN debounced.results
  /\ debounced.results[k].status = "pending"
  /\ DebounceCommit(resultSettled(debounced, k, promise))

NextDebounce ==
  \/ \E args \in Arguments : debouncedCalls(args)
  \/ \E outcome \in FuncOutcomes(debounced.args) : debounceElapses(outcome)
  \/ \E k \in 1..MaxCalls, args \in Arguments :
       \E promise \in Settlements(args) : resultSettles(k, promise)

SpecDebounce == InitDebounce /\ [][NextDebounce]_vars

\* The calls whose resolve is waiting in resolveList
Waiting(d) == {d.resolveList[j] : j \in 1..Len(d.resolveList)}

DebounceTypeOK ==
  /\ debounced.milliseconds \in DebounceMilliseconds
  /\ Len(debounced.promises) <= MaxCalls
  /\ Waiting(debounced) \subseteq DOMAIN debounced.promises
  /\ \A i \in DOMAIN debounced.promises :
       debounced.promises[i] \in 0..Len(debounced.results)
  /\ debounced.timeoutId # 0 => debounced.resolveList # <<>>

\* Every call waiting in d has its promise rejected with error in after.
BatchRejected(d, after, error) ==
  \A i \in Waiting(d) : promiseOf(after, i) = Rejected(error)

\* C30: when the timer of the debounced function elapses and func throws
\* an error, or returns a promise that is or becomes rejected, the promise
\* of every call waiting in the batch is rejected with that error.
C30_FailureRejectsWholeBatch ==
  debounced.timeoutId # 0 =>
    \A error \in Failures :
      /\ BatchRejected(debounced,
                       debounceTimeout(debounced, Throws(error)), error)
      /\ BatchRejected(debounced,
                       debounceTimeout(debounced, Returns(Rejected(error))),
                       error)
      /\ BatchRejected(debounced,
                       resultSettled(
                         debounceTimeout(debounced, Returns(NewPromise)),
                         Len(debounced.results) + 1, Rejected(error)),
                       error)

\* What holds of a failing func: a returned promise that is or becomes
\* rejected rejects the promise of every waiting call with its error, and
\* empties resolveList.
RejectedPromiseRejectsWholeBatch ==
  debounced.timeoutId # 0 =>
    \A error \in Failures :
      /\ BatchRejected(debounced,
                       debounceTimeout(debounced, Returns(Rejected(error))),
                       error)
      /\ BatchRejected(debounced,
                       resultSettled(
                         debounceTimeout(debounced, Returns(NewPromise)),
                         Len(debounced.results) + 1, Rejected(error)),
                       error)
      /\ debounceTimeout(debounced, Returns(Rejected(error))).resolveList
           = <<>>

\* ------------------------------------------------- order of a task's events
\* The queue with a caller of onSizeLessThan(1), who sees what a 'next'
\* listener sees.  Entries are added with the default priority 0 and the
\* limit is assigned whole numbers: neither plays a part in the order of
\* the events of one task.
NextEvents ==
  \/ \E g \in Signals : add(0, g)
  \/ \E id \in TaskIds, o \in AllOutcomes : settle(id, o)
  \/ \E id \in TaskIds : abort(id)
  \/ start
  \/ pause
  \/ clear
  \/ \E c \in IntegerValues : setConcurrency(c)
  \/ onSizeLessThan(1)

SpecEvents == Init /\ [][NextEvents]_vars

\* The settlings that can happen next in the current state.
SettleRuns ==
  {Run("settle", x[1], settleCall(x[1], x[2])) :
     x \in {y \in TaskIds \X AllOutcomes : canSettle(y[1], y[2])}}

\* The positions in the trace of a run at which ev happens
Positions(run, ev) == {k \in 1..Len(run.s.trace) : run.s.trace[k].ev = ev}

\* The steps of #tryToStartAnother: what it emits and what the job it
\* starts does.
Redequeue == {"empty", "idle", "active", "inc", "invoke"}

PositionsOf(run, ev, id) ==
  {k \in Positions(run, ev) : run.s.trace[k].entry.id = id}

\* C32: a call starts an entry by emitting 'active' once and then invoking
\* the task, once, and only entries that were waiting, or that the call has
\* just added, are started; the
\* settling of a started task settles the promise add() returned, then
\* emits exactly one of 'completed' with the result and 'error' with the
\* error, once, then decrements pending and emits 'next'; 'completed' and
\* 'error' are emitted in no other call and for no other task, so never for
\* an entry that was not started.
C32_ActiveThenCompletedOrError ==
  /\ \A run \in Runs :
       /\ \A id \in TaskIds :
            /\ Cardinality(PositionsOf(run, "active", id)) <= 1
            /\ Cardinality(PositionsOf(run, "invoke", id)) <= 1
            /\ PositionsOf(run, "active", id) # {} =>
                 /\ \/ tasks[id].st = "added" /\ id \in QueuedIds(queue)
                    \/ /\ tasks[id].st = "new"
                       /\ run.op = "add"
                       /\ run.id = id
                 /\ id \notin QueuedIds(run.s.queue)
                 /\ run.s.tasks[id].st = "running"
            /\ \A k \in PositionsOf(run, "invoke", id) :
                 \E a \in PositionsOf(run, "active", id) : a < k
       /\ \A k \in Positions(run, "completed") \cup Positions(run, "error") :
            /\ run.op = "settle"
            /\ run.s.trace[k].entry.id = run.id
            /\ tasks[run.id].st = "running"
  /\ \A run \in SettleRuns :
       LET tr == run.s.trace
           announced == Positions(run, "completed") \cup Positions(run, "error")
           settled == Positions(run, "resolve") \cup Positions(run, "reject")
       IN  /\ Cardinality(announced) = 1
           /\ Cardinality(settled) = 1
           /\ \A k \in announced :
                /\ \A j \in settled : j < k /\ tr[j].arg = tr[k].arg
                /\ \A j \in Positions(run, "dec") \cup Positions(run, "next") :
                     k < j
                /\ tr[k].pending = pending
                /\ tr[k].ev = "completed" <=> tr[k].arg = "fulfilled"
                /\ tr[k].ev = "completed" <=> Positions(run, "resolve") # {}
           /\ run.s.tasks[run.id].st = "done"
  /\ \A j, k \in 1..Len(queue) : queue[j].id = queue[k].id => j = k
  /\ \A id \in QueuedIds(queue) : tasks[id].st = "added"

\* A task is about to settle with an error while an entry that clear() has
\* discarded was never started.
C32_Witness ==
  /\ \E id \in TaskIds : Discarded(id)
  /\ \E run \in SettleRuns :
       /\ Positions(run, "error") # {}
       /\ Positions(run, "active") # {}

\* The tasks a run starts
StartedIn(run) == {id \in TaskIds : PositionsOf(run, "active", id) # {}}

\* C33: a task whose signal is already aborted when the queue starts it is
\* counted in and never invoked, neither by the call that starts it nor
\* later; the only way it settles is the rejection of the promise add()
\* returned with the signal's reason, and that settling decrements pending
\* once and starts the entry at the head of the waiting list if the queue
\* is running and the freed slot is below the limit.
C33_AbortedBeforeStartIsNeverInvoked ==
  /\ \A run \in Runs : \A id \in TaskIds :
       /\ (id \in StartedIn(run) /\ run.s.tasks[id].sig = "aborted") =>
            /\ PositionsOf(run, "invoke", id) = {}
            /\ Cardinality(PositionsOf(run, "inc", id)) = 1
            /\ run.s.tasks[id].st = "running"
       /\ tasks[id].st = "running" =>
            /\ PositionsOf(run, "invoke", id) = {}
            /\ PositionsOf(run, "inc", id) = {}
  /\ \A id \in TaskIds :
       (tasks[id].st = "running" /\ tasks[id].sig = "aborted") =>
         /\ \E run \in SettleRuns : run.id = id
         /\ \A run \in SettleRuns :
              run.id = id =>
                /\ \E k \in Positions(run, "reject") :
                     run.s.trace[k].arg = "abort"
                /\ Positions(run, "resolve") = {}
                /\ Cardinality(Positions(run, "dec")) = 1
                /\ (/\ ~isPaused
                    /\ Len(queue) > 0
                    /\ Whole(pending - 1) < concurrency) =>
                     /\ StartedIn(run) = {Head(queue).id}
                     /\ run.s.pending = pending

\* A task with an aborted signal waits at the head of the list behind a
\* task that is about to settle on a running queue with no free slot.
C33_Witness ==
  /\ ~isPaused
  /\ Len(queue) > 0
  /\ tasks[Head(queue).id].sig = "aborted"
  /\ Whole(pending) = concurrency
  /\ \E run \in SettleRuns :
       /\ Head(queue).id \in StartedIn(run)
       /\ PositionsOf(run, "invoke", Head(queue).id) = {}

\* ------------------------------- RetryController: the counts of a session

\* A session of the controller starts with try() or reset().  One step of
\* the controller keeps the counts in order: a step that invokes the
\* operation invokes it once, with the retry count the controller then
\* holds, which is the count before the step for try() and one more than
\* it for a scheduled callback; and the retry count changes only by one
\* with a scheduled callback or to 0 with reset(), which invokes nothing.
CountsStep ==
  /\ session.calls' # session.calls =>
       /\ session.calls' = Append(session.calls, controller'.retryCount)
       /\ \/ /\ controller.func = "noop"
             /\ controller'.func = "operation"
             /\ controller'.retryCount = controller.retryCount
             /\ now' = now
          \/ /\ controller.func = "operation"
             /\ controller'.retryCount = controller.retryCount + 1
             /\ timers'.armed # timers.armed
  /\ controller'.retryCount # controller.retryCount =>
       \/ controller'.retryCount = controller.retryCount + 1
       \/ controller'.retryCount = 0 /\ session.calls' = session.calls

\* What try() and a retry(error) that returns true do in the current state:
\* try() invokes the operation at once with the current retry count; the
\* retry invokes nothing and leaves exactly one callback scheduled, which
\* on firing adds one to the retry count and invokes the stored operation
\* with the new count.
CountsOfNextCalls ==
  /\ LET tried == tryCall(World, "operation")
     IN  /\ tried.session.calls = Append(session.calls, controller.retryCount)
         /\ tried.controller.retryCount = controller.retryCount
         /\ tried.now = now
         /\ tried.timers = timers
  /\ \A m \in Messages, r \in Randoms :
       LET retried == retryCall(World,
                                Error(m, Len(controller.errors) + 1), r)
       IN  retried.returned =>
             /\ retried.session.calls = session.calls
             /\ retried.controller.retryCount = controller.retryCount
             /\ Cardinality(retried.timers.armed) = 1
             /\ \A t \in retried.timers.armed :
                  /\ t \notin timers.armed
                  /\ timerFired(retried, t).controller.retryCount
                       = controller.retryCount + 1
                  /\ timerFired(retried, t).timers.armed = {}
                  /\ controller.func = "operation" =>
                       timerFired(retried, t).session.calls
                         = Append(session.calls, controller.retryCount + 1)

\* C34: the retry counts passed to the operation are consecutive: try()
\* invokes the operation at once with the current retry count, every
\* retry(error) that returns true schedules exactly one callback, which on
\* firing adds exactly one to the retry count and invokes the stored
\* operation with the new count, and between two session starts the counts
\* the operation is invoked with only grow, so none is used twice.
C34_RetryCountsAreConsecutive == []CountsOfNextCalls /\ [][CountsStep]_vars

\* The operation was invoked with 0 and 1, a reset started a new session in
\* which it was invoked with 1, and the next callback is scheduled.
C34_Witness ==
  /\ session.calls = <<0, 1, 1>>
  /\ controller.retryCount = 1
  /\ timers.armed # {}

\* ------------------------------------- RetryController: the cached mainError

\* The controllers whose cache is followed: with and without a limit on
\* the time the retries may take, so that retry() also takes the branch
\* that clears the history and records 'Retry timeout'.
CacheOptions ==
  [maxRetryCount : 1..MaxRetryCount,
   minTimeInterval : {Whole(1)},
   maxTimeInterval : {POSITIVE_INFINITY},
   maxRetryTime : {Whole(2), POSITIVE_INFINITY},
   incrementIntervalFactor : {Whole(2)},
   incrementIntervalRandomize : {FALSE},
   getTimeout : {"none"}]

InitCache ==
  /\ NoQueue
  /\ \E options \in CacheOptions :
       /\ ~RetryController(options).thrown
       /\ controller = RetryController(options).controller
  /\ timers = NoTimers
  /\ now = 0
  /\ session = NoSession
  /\ other = NoOther
  /\ NoWrappers

SpecCache == InitCache /\ [][NextLifecycle]_vars

\* The controller with its cache thrown away: reading mainError from it
\* computes the value from the error history.
Uncached(w) ==
  [w EXCEPT !.controller.isMainErrorStale = TRUE,
            !.controller.cachedMainError = Null]

\* C35: mainError is cache-coherent: in every state reached by try, retry,
\* stop, reset and reads of mainError, reading mainError returns what
\* computing it afresh from the current error history returns, twice in a
\* row as well; a cache that is not marked stale holds that value, or null
\* for the empty history.
C35_MainErrorIsCacheCoherent ==
  /\ mainError(World).read = mainError(Uncached(World)).read
  /\ mainError(mainError(World)).read = mainError(Uncached(World)).read
  /\ (controller.errors # <<>> /\ controller.errors[1].message
        \notin ObjectPrototypeKeys) =>
       mainError(World).read # Null
  /\ ~controller.isMainErrorStale =>
       controller.cachedMainError = mainError(Uncached(World)).read

\* mainError was read and cached, and the history has since been replaced:
\* the time limit passed, retry() cleared the history and recorded
\* 'Retry timeout', and the cache, which names an error no longer in the
\* history, is marked stale.
C35_Witness ==
  /\ controller.isMainErrorStale
  /\ controller.cachedMainError # Null
  /\ controller.errors = <<RetryError>>
  /\ controller.cachedMainError # RetryError

\* ------------------------------------------------ PromiseQueue: free slots

\* C36: the queue is work-conserving: in every state reached after an
\* operation (add, task completion, start, pause, clear, concurrency
\* assignment) has returned, a queue that is not paused and has an entry
\* waiting has pending >= concurrency; no entry waits while the queue runs
\* and has a free slot.
C36_NoEntryWaitsBesideFreeSlot ==
  (~isPaused /\ Len(queue) > 0) => Whole(pending) >= concurrency

\* A task has completed, the slot it freed was taken by a waiting entry,
\* and another entry still waits behind a full set of running tasks.
C36_Witness ==
  /\ ~isPaused
  /\ Len(queue) > 0
  /\ Whole(pending) = concurrency
  /\ \E id \in TaskIds : tasks[id].st = "done"

\* ------------------------------------------ RetryPromise: the abort signal

\* signal.reason of a signal aborted without a reason
AbortReason ==
  [name |-> "AbortError", message |-> "This operation was aborted",
   serial |-> 0]

\* One call of the function RetryPromise returns, with options.signal: a
\* new controller and a PromiseWithAbortSignal.  With a signal that has
\* fired the promise is rejected with the signal's reason and the executor
\* is not called; else the promise and the executor each listen for
\* 'abort', and the executor calls controller.try with the attempt
\* function.
retryPromiseCallWithSignal(w, signal) ==
  LET made == [w EXCEPT !.controller = NewController(w.controller.options)]
  IN  IF signal = "aborted"
        THEN [made EXCEPT !.session = [NoSession EXCEPT
                                         !.state = "aborted",
                                         !.promise = "rejected",
                                         !.value = AbortReason]]
        ELSE tryCall([made EXCEPT !.session = [NoSession EXCEPT
                                                 !.state = "listening",
                                                 !.promise = "pending"]],
                     "operation")

\* The signal fires: the promise's listener rejects with the reason, then
\* the executor's listener stops the controller and rejects again.
abortListeners(w) ==
  reject(stopCall(reject([w EXCEPT !.session.state = "aborted"],
                         AbortReason)),
         AbortReason)

retryPromiseWithSignal(signal) ==
  /\ canCall
  /\ RetryCommit(retryPromiseCallWithSignal(World, signal))

signalFires ==
  /\ session.state = "listening"
  /\ RetryCommit(abortListeners(World))

NextAbort ==
  \/ \E g \in Signals : retryPromiseWithSignal(g)
  \/ \E m \in Messages, d \in Durations, r \in Randoms : attemptFails(m, d, r)
  \/ \E d \in Durations : attemptFulfils(d)
  \/ timerFires
  \/ signalFires

SpecAbort == InitRetryPromise /\ [][NextAbort]_vars

\* The signal firing on a call that has not settled rejects the promise
\* with the signal's reason and leaves no retry scheduled; a call made with
\* a signal that had fired is rejected likewise and invokes nothing.
AbortRejectsAndClearsTimer ==
  /\ (session.state = "listening" /\ session.promise = "pending") =>
       /\ abortListeners(World).session.promise = "rejected"
       /\ abortListeners(World).session.value = AbortReason
       /\ abortListeners(World).timers.armed = {}
       /\ abortListeners(World).session.calls = session.calls
  /\ session.state = "idle" =>
       /\ retryPromiseCallWithSignal(World, "aborted").session.promise
            = "rejected"
       /\ retryPromiseCallWithSignal(World, "aborted").session.value
            = AbortReason
       /\ retryPromiseCallWithSignal(World, "aborted").session.calls = <<>>
       /\ retryPromiseCallWithSignal(World, "aborted").timers.armed = {}

\* C37: once the abort signal of a RetryPromise call has fired, the
\* returned promise is rejected with the abort reason and the wrapped
\* function is never invoked again for that call, whether the signal fires
\* while a retry timer is waiting or while an attempt is in flight: no
\* retry is scheduled then, and none gets scheduled when the attempt in
\* flight fails.
C37_AbortedCallIsNeverInvokedAgain ==
  /\ AbortRejectsAndClearsTimer
  /\ session.state = "aborted" =>
       /\ timers.armed = {}
       /\ \A run \in FailRuns :
            run.timers.armed = {} /\ run.session.calls = session.calls

\* ------------------------------- RetryController: one scheduled callback

\* C38: a RetryController has at most one scheduled retry callback
\* outstanding at any time, the one whose id it holds: every retry() call
\* cancels the callback scheduled before and schedules at most one, so a
\* single retry() causes at most one later invocation of the operation.
C38_AtMostOneScheduledCallback ==
  /\ Cardinality(timers.armed) <= 1
  /\ \A t \in timers.armed : t.id = controller.timeoutId
  /\ \A m \in Messages, r \in Randoms :
       LET retried == retryCall(World,
                                Error(m, Len(controller.errors) + 1), r)
       IN  /\ retried.timers.armed \cap timers.armed = {}
           /\ Cardinality(retried.timers.armed)
                = IF retried.returned THEN 1 ELSE 0
           /\ \A t \in retried.timers.armed :
                /\ timerFired(retried, t).timers.armed = {}
                /\ Len(timerFired(retried, t).session.calls)
                     <= Len(session.calls) + 1

\* Two retries were scheduled and none has fired or been stopped: the
\* second retry() cancelled the callback of the first, and only its own
\* is outstanding.
C38_Witness ==
  /\ timers.created = 2
  /\ Cardinality(timers.armed) = 1
  /\ Len(controller.errors) = 2
  /\ session.calls = <<0>>
  /\ controller.retryCount = 0

\* ------------------------------------------- TimeoutPromise: the fallback

\* C39: the fallback function of a TimeoutPromise is invoked only when the
\* timeout elapses before the executor has settled the promise: a promise
\* whose fallback was invoked carries the fallback's value, and when the
\* executor has resolved or rejected first and clear() was not called, the
\* timer elapsing does not invoke the fallback.
C39_FallbackOnlyWhenTimeoutElapsesFirst ==
  /\ timed.fallbackCalls > 0 =>
       timed.promise = [status |-> "fulfilled", value |-> FallbackValue]
  /\ (timed.armed /\ timed.promise.status # "pending") =>
       timerCallback(timed).fallbackCalls = timed.fallbackCalls

\* While the promise is pending the timer elapsing invokes the fallback
\* once and fulfils the promise with its value; after clear() no timer is
\* left to invoke it.
FallbackInvokedWhenTimeoutElapsesFirst ==
  /\ (timed.armed /\ timed.promise.status = "pending"
        /\ timed.options.fallback # "none") =>
       /\ timerCallback(timed).fallbackCalls = timed.fallbackCalls + 1
       /\ timerCallback(timed).promise
            = [status |-> "fulfilled", value |-> FallbackValue]
  /\ timed.options.fallback = "none" => timed.fallbackCalls = 0
  /\ isConstructed => ~timeoutClearCall(timed).armed
====
